---------------------------- MODULE Spec2Model ----------------------------
(***************************************************************************)
(* SnipeRank backend (server.js, v2.4.2 with its earlier variants): the    *)
(* crawl -> score -> findings pipeline.                                    *)
(*                                                                         *)
(*  - Spec      : the pure analysis functions (calculateQualityScore,      *)
(*                targetsFor, generateCompleteAnalysis with polish/grow)   *)
(*                applied to page lists drawn from bounded sets.           *)
(*  - CrawlSpec : crawlSitePages, one action per loop iteration, against   *)
(*                a nondeterministic web.                                  *)
(*  - CrawlLiveSpec : CrawlSpec with the loop kept running.                *)
(*  - CallsSpec : repeated calls of calculateQualityScore,                 *)
(*                generateCompleteAnalysis and generateAIInsights on one   *)
(*                input, in any order.                                     *)
(*  - AnalyzeSpec : analyzeWebsite, from the crawl's return to the report. *)
(*  - ScoreSpec : GET /api/score around analyzeWebsite.                    *)
(*  - Spec240   : the Needs Attention list of v2.4.0.                      *)
(*  - EnforceSpec : enforceNeedsAttention (v1.9.15-ssr) on item lists.     *)
(*  - SubmitSpec : concurrent POST /api/full-report-request requests.      *)
(*                                                                         *)
(* Text is modelled word by word.  A word keeps what the sentence splitter *)
(* and the neutralizer look at: whether it starts with [A-Z0-9], whether   *)
(* it ends with [.!?], and whether it is one of the words neutralize       *)
(* rewrites.  The bullet character of the version suffix is written "*".   *)
(***************************************************************************)
EXTENDS Integers, Sequences, FiniteSets, TLC

VARIABLES
    \* ---- analysis (Spec) ----
    pagesData,      \* argument: list of page records
    host,           \* argument: host name
    reportType,     \* argument: "analyze" | "full"
    scoreLog,       \* values returned by the calls of calculateQualityScore
    scoreCalls,     \* number of calls of calculateQualityScore so far
    analysis,       \* value returned by generateCompleteAnalysis, or NoResult
    analysisCalls,  \* number of calls of generateCompleteAnalysis so far
    analysisLog,    \* values returned by the calls of generateCompleteAnalysis
    insights,       \* value returned by generateAIInsights, or NoResult
    insightsCalls,  \* number of calls of generateAIInsights so far
    insightsLog,    \* values returned by the calls of generateAIInsights
    \* ---- analyzeWebsite (AnalyzeSpec) ----
    report,         \* value returned by analyzeWebsite, or NoResult
    azPc,           \* "crawl": awaiting crawlSitePages; "crawled": it returned;
                    \* "done": analyzeWebsite returned; "idle": no call
    \* ---- crawler (CrawlSpec) ----
    startUrl,       \* argument of crawlSitePages
    maxPages,       \* argument of crawlSitePages
    queue,          \* const queue = [startUrl]
    current,        \* const current = queue.shift()
    visited,        \* const visited = new Set()
    pages,          \* const pages = []
    fetched,        \* history: every URL handed to axios.get, in order
    failed,         \* history: the URLs whose axios.get threw
    enqueued,       \* history: every queue.push, in order, with its origin
    crawlPc,        \* "loop": at the while test; "fetch": awaiting axios.get;
                    \* "done": returned; "idle": no crawl
    \* ---- request handlers (EnforceSpec, ScoreSpec, SubmitSpec) ----
    html,           \* argument of enforceNeedsAttention: the texts of the <li>
                    \* items of the list under the Needs Attention header
    normalized,     \* the items enforceNeedsAttention leaves in that list
    scoreReply,     \* response of GET /api/score, or NoResult
    submissionsFile,\* content of submissions.json
    handlers        \* POST /api/full-report-request: state of each request

analysisVars == <<pagesData, host, reportType, scoreLog, scoreCalls, analysis,
                  analysisCalls, analysisLog, insights, insightsCalls,
                  insightsLog, report, azPc>>
crawlVars    == <<startUrl, maxPages, queue, current, visited, pages, fetched, failed, enqueued, crawlPc>>
serverVars   == <<html, normalized, scoreReply, submissionsFile, handlers>>
vars         == <<pagesData, host, reportType, scoreLog, scoreCalls, analysis,
                  analysisCalls, analysisLog, insights, insightsCalls,
                  insightsLog, report, azPc,
                  startUrl, maxPages, queue, current, visited, pages, fetched,
                  failed, enqueued, crawlPc,
                  html, normalized, scoreReply, submissionsFile, handlers>>

NoResult == [none |-> TRUE]

\* no call of an analysis function was made yet
NoCalls ==
    /\ scoreLog = {} /\ scoreCalls = 0
    /\ analysis = NoResult /\ analysisCalls = 0 /\ analysisLog = {}
    /\ insights = NoResult /\ insightsCalls = 0 /\ insightsLog = {}

\* analyzeWebsite is not running
NoReport == report = NoResult /\ azPc = "idle"

\* no request handler is running
NoServer ==
    /\ html = <<>> /\ normalized = NoResult /\ scoreReply = NoResult
    /\ submissionsFile = <<>> /\ handlers = <<>>

-----------------------------------------------------------------------------
(* Bounds *)

MaxListLen == 3      \* longest page list built from PagePool
MaxScoreCalls == 2   \* calls of calculateQualityScore on one input
MaxCalls == 3        \* calls of the analysis functions on one input, in all
MaxCrawlPages == 3   \* largest maxPages argument of crawlSitePages

-----------------------------------------------------------------------------
(* Arithmetic helpers *)

Min(a, b) == IF a < b THEN a ELSE b
Max(a, b) == IF a > b THEN a ELSE b

\* Math.round(n / d) for n >= 0, d > 0 (round half up)
RoundDiv(n, d) == (2 * n + d) \div (2 * d)

\* Math.floor(n / d) for n >= 0, d > 0
FloorDiv(n, d) == n \div d

\* Math.ceil(n / d) for n >= 0, d > 0
CeilDiv(n, d) == (n + d - 1) \div d

clamp(n, lo, hi) == Max(lo, Min(hi, n))

\* pct = (num, den) => (den ? Math.round((num / den) * 100) : 0)
pct(num, den) == IF den # 0 THEN RoundDiv(100 * num, den) ELSE 0

RECURSIVE SumSeq(_)
SumSeq(s) == IF Len(s) = 0 THEN 0 ELSE Head(s) + SumSeq(Tail(s))

\* avg = (arr) => (arr.length ? Math.round(sum / arr.length) : 0)
avg(arr) == IF Len(arr) # 0 THEN RoundDiv(SumSeq(arr), Len(arr)) ELSE 0

\* arr.filter(pred).length, with pred given as the set of matching indices
CountIdx(S) == Cardinality(S)

SeqRange(s) == {s[i] : i \in DOMAIN s}

\* arr.slice(0, n)
Take(s, n) == SubSeq(s, 1, Min(n, Len(s)))

\* arr.slice(n)
Drop(s, n) == SubSeq(s, n + 1, Len(s))

-----------------------------------------------------------------------------
(* Page records (pageData of crawlSitePages) as seen by the analysis *)

\* page titles: the empty title, two ordinary titles, one longer than 60
TitleLen(t) ==
    CASE t = ""            -> 0
      [] t = "Home"        -> 4
      [] t = "About us"    -> 8
      [] t = "LongTitle"   -> 72

MkPage(ssl, wc, h1, lk, sch, title, meta, imgs, alts, cr, nav, ft, ext, soc, ct) ==
    [hasSSL |-> ssl, wordCount |-> wc, h1Count |-> h1,
     internalLinkCount |-> lk, hasSchema |-> sch,
     title |-> title, metaDescLen |-> meta,
     imageCount |-> imgs, imageAltCount |-> alts,
     breadcrumbs |-> cr, hasNav |-> nav, hasFooter |-> ft,
     externalLinkCount |-> ext, socialLinkCount |-> soc,
     phone |-> ct, email |-> ct, address |-> FALSE]

\* the secondary signals of a well-furnished page and of a bare page
RichRest(ssl, words, h1, links, schema) ==
    MkPage(ssl, words, h1, links, schema, "Home", 140, 4, 4,
           TRUE, TRUE, TRUE, 2, 3, TRUE)
BareRest(ssl, words, h1, links, schema) ==
    MkPage(ssl, words, h1, links, schema, "", 0, 4, 1,
           FALSE, FALSE, FALSE, 12, 0, FALSE)

WordCounts == {150, 200, 450, 600, 650}
H1Counts   == {0, 1, 2}
LinkCounts == {2, 3, 6, 8}

\* single-page inputs: every combination of the scored signals
SinglePages ==
    {RichRest(ssl, w, h, l, sc) :
        ssl \in BOOLEAN, w \in WordCounts, h \in H1Counts,
        l \in LinkCounts, sc \in BOOLEAN}
    \cup
    {BareRest(ssl, w, h, l, sc) :
        ssl \in BOOLEAN, w \in WordCounts, h \in H1Counts,
        l \in LinkCounts, sc \in BOOLEAN}

\* pages that multi-page inputs are built from
PagePool ==
    { RichRest(TRUE, 650, 1, 8, TRUE),
      MkPage(TRUE, 450, 1, 2, TRUE, "About us", 150, 0, 0,
             TRUE, TRUE, TRUE, 1, 1, TRUE),
      MkPage(FALSE, 150, 2, 3, FALSE, "LongTitle", 0, 10, 3,
             FALSE, TRUE, FALSE, 20, 0, FALSE),
      BareRest(TRUE, 700, 0, 6, FALSE) }

RECURSIVE SeqsUpTo(_, _)
SeqsUpTo(S, n) ==
    IF n = 0 THEN {<<>>}
    ELSE LET shorter == SeqsUpTo(S, n - 1)
         IN  shorter \cup {Append(s, x) : s \in {t \in shorter : Len(t) = n - 1}, x \in S}

PageLists ==
    {<<>>} \cup {<<p>> : p \in SinglePages}
           \cup {s \in SeqsUpTo(PagePool, MaxListLen) : Len(s) >= 2}

ReportTypes == {"analyze", "full"}
Hosts == {"example.com", "1stsite.io"}

-----------------------------------------------------------------------------
(* calculateQualityScore *)

FallbackScore == 30

\* if (avgWords >= 600) score += 12; else if (>= 400) += 8; else if (>= 200) += 4
\* (avgWords = sumWords / total, so avgWords >= k  <=>  sumWords >= k * total)
WordBonus_strict(sumWords, total) ==
    IF sumWords > 600 * total THEN 12
    ELSE IF sumWords > 400 * total THEN 8
    ELSE IF sumWords > 200 * total THEN 4
    ELSE 0

WordBonus(sumWords, total) ==
    IF sumWords >= 600 * total THEN 12
    ELSE IF sumWords >= 400 * total THEN 8
    ELSE IF sumWords >= 200 * total THEN 4
    ELSE 0

\* a top link bonus of 24
LinkBonus_top24(sumLinks, total) ==
    IF sumLinks >= 6 * total THEN 24
    ELSE IF sumLinks >= 3 * total THEN 6
    ELSE 0

\* if (avgLinks >= 6) score += 10; else if (avgLinks >= 3) score += 6
LinkBonus(sumLinks, total) ==
    IF sumLinks >= 6 * total THEN 10
    ELSE IF sumLinks >= 3 * total THEN 6
    ELSE 0

\* score before rounding, times total:
\* score = 40 + (https/total)*10 + wordBonus + (h1/total)*8 + linkBonus
\*            + (schema/total)*8
ScoreNum(pd) ==
    LET total         == Len(pd)
        httpsPages    == CountIdx({i \in DOMAIN pd : pd[i].hasSSL})
        sumWords      == SumSeq([i \in DOMAIN pd |-> pd[i].wordCount])
        properH1Pages == CountIdx({i \in DOMAIN pd : pd[i].h1Count = 1})
        sumLinks      == SumSeq([i \in DOMAIN pd |-> pd[i].internalLinkCount])
        schemaPages   == CountIdx({i \in DOMAIN pd : pd[i].hasSchema})
    IN  (40 + WordBonus(sumWords, total) + LinkBonus(sumLinks, total)) * total
        + 10 * httpsPages + 8 * properH1Pages + 8 * schemaPages

\* the empty-list guard returning 0 instead of 30
calculateQualityScore_zeroFallback(pd) ==
    IF Len(pd) = 0 THEN 0
    ELSE Min(100, Max(30, RoundDiv(ScoreNum(pd), Len(pd))))

calculateQualityScore(pd) ==
    IF Len(pd) = 0 THEN FallbackScore
    ELSE Min(100, Max(30, RoundDiv(ScoreNum(pd), Len(pd))))

-----------------------------------------------------------------------------
(* targetsFor *)

\* the high band asking for 20 "needs" items
targetsFor_highNeeds20(rt, score) ==
    IF rt = "analyze" THEN [working |-> 5, needs |-> 10]
    ELSE IF score < 60 THEN [working |-> 5, needs |-> 25]
    ELSE IF score < 80 THEN [working |-> 7, needs |-> 20]
    ELSE [working |-> 10, needs |-> 20]

targetsFor(rt, score) ==
    IF rt = "analyze" THEN [working |-> 5, needs |-> 10]
    ELSE IF score < 60 THEN [working |-> 5, needs |-> 25]
    ELSE IF score < 80 THEN [working |-> 7, needs |-> 20]
    ELSE [working |-> 10, needs |-> 15]

-----------------------------------------------------------------------------
(* Text: a description is a sequence of words; BR is the "\n\n" that joins *)
(* paragraphs.  A word is [s, e, k]: s = starts with [A-Z0-9],             *)
(* e = ends with [.!?], k = "w" for an ordinary word, "host" for the       *)
(* interpolated host name, and "verb" / "modal" / "noun" for a word or     *)
(* phrase matched by the first / second / third pattern of neutralize.     *)

lw  == [s |-> FALSE, e |-> FALSE, k |-> "w"]     \* "pages"
lwE == [s |-> FALSE, e |-> TRUE,  k |-> "w"]     \* "trail."
Uw  == [s |-> TRUE,  e |-> FALSE, k |-> "w"]     \* "Every", "H1", "95%"
UwE == [s |-> TRUE,  e |-> TRUE,  k |-> "w"]     \* "HTTPS.", "90%)."
BR  == [s |-> FALSE, e |-> FALSE, k |-> "br"]    \* "\n\n"

\* URL.hostname is lower case; it starts with a digit or with a letter
HostStartsDigit(h) == h = "1stsite.io"
Hst(h)  == [s |-> HostStartsDigit(h), e |-> FALSE, k |-> "host"]  \* "${host}"
HstE(h) == [s |-> HostStartsDigit(h), e |-> TRUE,  k |-> "host"]  \* "${host}."

\* n ordinary lower-case words
L(n) == [i \in 1..n |-> lw]

\* a sentence: first word, n ordinary words, last word
Sent(first, n, last) == <<first>> \o L(n) \o <<last>>

RECURSIVE Concat(_)
Concat(ss) == IF Len(ss) = 0 THEN <<>> ELSE Head(ss) \o Concat(Tail(ss))

\* sentences.join(' ')
JoinSpace(sents) == Concat(sents)

\* paragraphs.join('\n\n')
RECURSIVE JoinBreak(_)
JoinBreak(paras) ==
    IF Len(paras) = 0 THEN <<>>
    ELSE IF Len(paras) = 1 THEN Head(paras)
    ELSE Head(paras) \o <<BR>> \o JoinBreak(Tail(paras))

\* text.split('\n\n'): the paragraphs of a description
RECURSIVE SplitBreakFrom(_, _, _)
SplitBreakFrom(ws, done, cur) ==
    IF Len(ws) = 0 THEN Append(done, cur)
    ELSE IF Head(ws).k = "br" THEN SplitBreakFrom(Tail(ws), Append(done, cur), <<>>)
    ELSE SplitBreakFrom(Tail(ws), done, Append(cur, Head(ws)))
Paragraphs(text) == SplitBreakFrom(text, <<>>, <<>>)

\* .replace(/\s+/g,' ').trim(): every run of white space is one blank
CollapseSpace(text) == SelectSeq(text, LAMBDA w : w.k # "br")

\* .split(/(?<=[.!?])\s+(?=[A-Z0-9])/).filter(Boolean)
RECURSIVE SplitFrom(_, _, _)
SplitFrom(ws, done, cur) ==
    IF Len(ws) = 0 THEN (IF Len(cur) = 0 THEN done ELSE Append(done, cur))
    ELSE IF Len(cur) > 0 /\ cur[Len(cur)].e /\ Head(ws).s
         THEN SplitFrom(Tail(ws), Append(done, cur), <<Head(ws)>>)
         ELSE SplitFrom(Tail(ws), done, Append(cur, Head(ws)))

splitSents(t) == SplitFrom(CollapseSpace(t), <<>>, <<>>)

\* the replacements are lower-case words; trailing punctuation is kept
neutralize(text) ==
    [i \in DOMAIN text |->
        IF text[i].k \in {"verb", "modal", "noun"}
        THEN [s |-> FALSE, e |-> text[i].e, k |-> "w"]
        ELSE text[i]]

PoolSize == 6

\* const pool = [...]
ObfuscationPool(domain) ==
    <<
          \* Treat this as directional heat rather than a checklist for ${domain}.
          <<Uw>> \o L(7) \o <<[s |-> FALSE, e |-> FALSE, k |-> "noun"], lw, HstE(domain)>>,
          \* Local template choices on ${domain} likely govern the trade-offs seen here.
          <<Uw>> \o L(3) \o <<Hst(domain)>> \o L(5) \o <<lwE>>,
          \* Signals are suggestive, not prescriptive; nuance sits in the page furniture.
          Sent(Uw, 9, lwE),
          \* Interpretation depends on context outside the crawl scope for ${domain}.
          <<Uw>> \o L(8) \o <<HstE(domain)>>,
          \* These patterns sketch tendencies; specifics hinge on internal conventions.
          Sent(Uw, 7, lwE),
          \* Consider this a lens on tendencies, not a step-by-step recipe.
          Sent(Uw, 9, lwE) >>

\* a pool index that moves on with every call that was made before
addObfuscation_callSalt(domain, salt) ==
    ObfuscationPool(domain)[((salt + analysisCalls + insightsCalls) % PoolSize) + 1]

addObfuscation(domain, salt) ==
    ObfuscationPool(domain)[(salt % PoolSize) + 1]

\* while (s.length < n) s.push(addObfuscation(domain, idx + s.length))
RECURSIVE PadTo(_, _, _, _)
PadTo(s, n, domain, idx) ==
    IF Len(s) >= n THEN s
    ELSE PadTo(Append(s, addObfuscation(domain, idx + Len(s))), n, domain, idx)

\* analyze mode padding to 2 sentences instead of 3
polish_padTo2(raw, mode, domain, idx) ==
    LET s == splitSents(neutralize(raw))
    IN  IF mode = "analyze"
        THEN JoinSpace(Take(PadTo(s, 2, domain, idx), 3))
        ELSE LET p    == PadTo(s, 6, domain, idx)
                 goal == Min(10, Max(6, Len(p)))
                 cut  == Take(p, goal)
                 mid  == CeilDiv(Len(cut), 2)
             IN  JoinBreak(<<JoinSpace(Take(cut, mid)), JoinSpace(Drop(cut, mid))>>)

\* full mode padding to 4 sentences instead of 6
polish_fullPadTo4(raw, mode, domain, idx) ==
    LET s == splitSents(neutralize(raw))
    IN  IF mode = "analyze"
        THEN JoinSpace(Take(PadTo(s, 3, domain, idx), 3))
        ELSE LET p    == PadTo(s, 4, domain, idx)
                 goal == Min(10, Max(6, Len(p)))
                 cut  == Take(p, goal)
                 mid  == CeilDiv(Len(cut), 2)
             IN  JoinBreak(<<JoinSpace(Take(cut, mid)), JoinSpace(Drop(cut, mid))>>)

polish(raw, mode, domain, idx) ==
    LET s == splitSents(neutralize(raw))
    IN  IF mode = "analyze"
        THEN JoinSpace(Take(PadTo(s, 3, domain, idx), 3))
        ELSE LET p    == PadTo(s, 6, domain, idx)
                 goal == Min(10, Max(6, Len(p)))
                 cut  == Take(p, goal)
                 mid  == CeilDiv(Len(cut), 2)
             IN  JoinBreak(<<JoinSpace(Take(cut, mid)), JoinSpace(Drop(cut, mid))>>)

-----------------------------------------------------------------------------
(* Findings: [title, description] *)

Finding(t, d) == [title |-> t, description |-> d]

SeedTitles == <<"Texture Spread", "Trail Density", "Caption Footing",
                "Typing Footprint", "Preview Cadence">>

\* while (... && i < seeds.length * 3)
SeedCycles == 3

\* (i >= seeds.length) ? ` * v${Math.floor(i/seeds.length)+2}` : ''
SeedSuffix(i) ==
    IF i >= Len(SeedTitles) THEN " * v" \o ToString(FloorDiv(i, Len(SeedTitles)) + 2)
    ELSE ""

\* String.prototype.toLowerCase on the titles the program builds
BaseLower ==
    [t \in {"Complete HTTPS Security", "Title Coverage & Differentiation",
            "Meta Description Presence", "Structured Data Footprint",
            "Internal Path Consistency", "Image Alt Coverage",
            "Substantial Content Depth", "Clear Heading Spine",
            "Template Consistency", "Breadcrumb Traces",
            "HTTPS Gaps", "Missing Titles", "Overlong Titles", "Duplicate Titles",
            "Thin Previews", "Thin Sections", "Shallow Average Depth",
            "Missing H1", "Multiple H1 Anchors", "Sparse Trails", "Isolated Pages",
            "Typed Context Gaps", "Alt-Text Thin Spots", "Few Breadcrumbs",
            "Template Drift", "Light Contact Footprint", "Quiet Social Surface",
            "High External Link Density", "Site Crawl Failed",
            "Texture Spread", "Trail Density", "Caption Footing",
            "Typing Footprint", "Preview Cadence"} |->
     CASE t = "Complete HTTPS Security"          -> "complete https security"
       [] t = "Title Coverage & Differentiation" -> "title coverage & differentiation"
       [] t = "Meta Description Presence"        -> "meta description presence"
       [] t = "Structured Data Footprint"        -> "structured data footprint"
       [] t = "Internal Path Consistency"        -> "internal path consistency"
       [] t = "Image Alt Coverage"               -> "image alt coverage"
       [] t = "Substantial Content Depth"        -> "substantial content depth"
       [] t = "Clear Heading Spine"              -> "clear heading spine"
       [] t = "Template Consistency"             -> "template consistency"
       [] t = "Breadcrumb Traces"                -> "breadcrumb traces"
       [] t = "HTTPS Gaps"                       -> "https gaps"
       [] t = "Missing Titles"                   -> "missing titles"
       [] t = "Overlong Titles"                  -> "overlong titles"
       [] t = "Duplicate Titles"                 -> "duplicate titles"
       [] t = "Thin Previews"                    -> "thin previews"
       [] t = "Thin Sections"                    -> "thin sections"
       [] t = "Shallow Average Depth"            -> "shallow average depth"
       [] t = "Missing H1"                       -> "missing h1"
       [] t = "Multiple H1 Anchors"              -> "multiple h1 anchors"
       [] t = "Sparse Trails"                    -> "sparse trails"
       [] t = "Isolated Pages"                   -> "isolated pages"
       [] t = "Typed Context Gaps"               -> "typed context gaps"
       [] t = "Alt-Text Thin Spots"              -> "alt-text thin spots"
       [] t = "Few Breadcrumbs"                  -> "few breadcrumbs"
       [] t = "Template Drift"                   -> "template drift"
       [] t = "Light Contact Footprint"          -> "light contact footprint"
       [] t = "Quiet Social Surface"             -> "quiet social surface"
       [] t = "High External Link Density"       -> "high external link density"
       [] t = "Site Crawl Failed"                -> "site crawl failed"
       [] t = "Texture Spread"                   -> "texture spread"
       [] t = "Trail Density"                    -> "trail density"
       [] t = "Caption Footing"                  -> "caption footing"
       [] t = "Typing Footprint"                 -> "typing footprint"
       [] t = "Preview Cadence"                  -> "preview cadence"]

\* lower case of `${t}${suffix}`: the suffix " * vN" is lower case already
SuffixedLower ==
    LET idx == Len(SeedTitles) .. (SeedCycles * Len(SeedTitles) - 1)
        sfx == {SeedSuffix(i) : i \in idx}
    IN  [t \in {SeedTitles[j] \o x : j \in DOMAIN SeedTitles, x \in sfx} |->
            LET j == CHOOSE j \in DOMAIN SeedTitles :
                        \E x \in sfx : t = SeedTitles[j] \o x
                x == CHOOSE x \in sfx : t = SeedTitles[j] \o x
            IN  BaseLower[SeedTitles[j]] \o x]

toLowerCase(t) ==
    IF t \in DOMAIN BaseLower THEN BaseLower[t]
    ELSE IF t \in DOMAIN SuffixedLower THEN SuffixedLower[t]
    ELSE t

\* (it.title || '').trim().toLowerCase(): no title of the program has outer blanks
TitleKey(f) == toLowerCase(f.title)

RECURSIVE UniqueFrom(_, _, _)
UniqueFrom(arr, seen, out) ==
    IF Len(arr) = 0 THEN out
    ELSE LET k == TitleKey(Head(arr))
         IN  IF k = "" \/ k \in seen
             THEN UniqueFrom(Tail(arr), seen, out)
             ELSE UniqueFrom(Tail(arr), seen \cup {k}, Append(out, Head(arr)))

uniqueByTitle(arr) == UniqueFrom(arr, {}, <<>>)

-----------------------------------------------------------------------------
(* generateCompleteAnalysis: aggregates, candidates, grow *)

\* the candidates up to the first check that does not hold
RECURSIVE Emit_untilFirstMiss(_)
Emit_untilFirstMiss(checks) ==
    IF Len(checks) = 0 THEN <<>>
    ELSE IF Head(checks)[1]
         THEN <<Head(checks)[2]>> \o Emit_untilFirstMiss(Tail(checks))
    ELSE <<>>

\* the candidates whose check holds, in catalogue order; checks = <<cond, finding>>
RECURSIVE Emit(_)
Emit(checks) ==
    IF Len(checks) = 0 THEN <<>>
    ELSE IF Head(checks)[1] THEN <<Head(checks)[2]>> \o Emit(Tail(checks))
    ELSE Emit(Tail(checks))

\* the aggregate statistics of a non-empty page list
Stats(pd) ==
    LET total == Len(pd)
        idx   == DOMAIN pd
        altPct(p) == IF p.imageCount # 0
                     THEN RoundDiv(100 * p.imageAltCount, p.imageCount) ELSE 100
    IN  [total        |-> total,
         httpsPages   |-> CountIdx({i \in idx : pd[i].hasSSL}),
         titleOK      |-> CountIdx({i \in idx : TitleLen(pd[i].title) > 0}),
         metaOK       |-> CountIdx({i \in idx : pd[i].metaDescLen > 0}),
         longTitles   |-> CountIdx({i \in idx : TitleLen(pd[i].title) > 60}),
         dupTitleCnt  |-> total - Cardinality({pd[i].title : i \in idx}),
         avgWords     |-> avg([i \in idx |-> pd[i].wordCount]),
         thinPages    |-> CountIdx({i \in idx : pd[i].wordCount < 300}),
         h1Singles    |-> CountIdx({i \in idx : pd[i].h1Count = 1}),
         h1None       |-> CountIdx({i \in idx : pd[i].h1Count = 0}),
         h1Multi      |-> CountIdx({i \in idx : pd[i].h1Count > 1}),
         avgInt       |-> avg([i \in idx |-> pd[i].internalLinkCount]),
         weakInt      |-> CountIdx({i \in idx : pd[i].internalLinkCount < 3}),
         schemaPages  |-> CountIdx({i \in idx : pd[i].hasSchema}),
         avgAltPct    |-> avg([i \in idx |-> altPct(pd[i])]),
         crumbs       |-> CountIdx({i \in idx : pd[i].breadcrumbs}),
         navPct       |-> pct(CountIdx({i \in idx : pd[i].hasNav}), total),
         footPct      |-> pct(CountIdx({i \in idx : pd[i].hasFooter}), total),
         extLinksAvg  |-> avg([i \in idx |-> pd[i].externalLinkCount]),
         socialAvg    |-> avg([i \in idx |-> pd[i].socialLinkCount]),
         contactPhone |-> CountIdx({i \in idx : pd[i].phone}),
         contactEmail |-> CountIdx({i \in idx : pd[i].email}),
         contactAddr  |-> CountIdx({i \in idx : pd[i].address})]

\* Math.ceil(total * 0.7), Math.ceil(total * 0.6), Math.ceil(total * 0.4)
Ceil70(total) == CeilDiv(7 * total, 10)
Ceil60(total) == CeilDiv(6 * total, 10)
Ceil40(total) == CeilDiv(4 * total, 10)

\* W: the "working" candidates
WorkingCandidates(st, h) ==
    Emit(<<
      <<st.httpsPages = st.total,
        Finding("Complete HTTPS Security",
          <<Uw>> \o L(3) \o <<Hst(h)>> \o L(2) \o <<UwE>> \o Sent(Uw, 12, lwE))>>,
      <<pct(st.titleOK, st.total) >= 95 /\ st.longTitles = 0 /\ st.dupTitleCnt = 0,
        Finding("Title Coverage & Differentiation",
          <<Uw>> \o L(7) \o <<HstE(h)>> \o Sent(Uw, 5, lwE))>>,
      <<pct(st.metaOK, st.total) >= 80,
        Finding("Meta Description Presence",
          <<Uw>> \o L(7) \o <<HstE(h)>> \o Sent(Uw, 9, lwE))>>,
      <<st.schemaPages >= Ceil70(st.total),
        Finding("Structured Data Footprint",
          Sent(Uw, 4, lwE) \o Sent(Uw, 9, lwE))>>,
      <<st.avgInt >= 6 /\ st.weakInt = 0,
        Finding("Internal Path Consistency",
          <<Uw>> \o L(9) \o <<HstE(h)>> \o Sent(Uw, 4, lwE))>>,
      <<st.avgAltPct >= 85,
        Finding("Image Alt Coverage",
          Sent(Uw, 7, lwE) \o Sent(Uw, 7, lwE))>>,
      <<st.avgWords >= 600,
        Finding("Substantial Content Depth",
          <<Uw>> \o L(3) \o <<Uw>> \o L(5) \o <<lwE>> \o Sent(Uw, 4, lwE))>>,
      <<st.h1Singles = st.total,
        Finding("Clear Heading Spine",
          <<Uw>> \o L(3) \o <<Uw, lw, HstE(h)>> \o Sent(Uw, 8, lwE))>>,
      <<st.navPct >= 90 /\ st.footPct >= 90,
        Finding("Template Consistency",
          <<Uw>> \o L(5) \o <<Uw, lw, UwE>> \o Sent(Uw, 6, lwE))>>,
      <<st.crumbs >= Ceil60(st.total),
        Finding("Breadcrumb Traces",
          Sent(Uw, 4, lwE) \o Sent(Uw, 7, lwE))>> >>)

\* N: the "needs attention" candidates; the last three in full mode only
NeedsCandidates(st, h, isAnalyze) ==
    Emit(<<
      <<st.httpsPages # st.total,
        Finding("HTTPS Gaps",
          <<Uw>> \o L(5) \o <<HstE(h)>> \o Sent(Uw, 11, lwE))>>,
      <<st.titleOK < st.total,
        Finding("Missing Titles", Sent(Uw, 4, lwE) \o Sent(Uw, 6, lwE))>>,
      <<st.longTitles > 0,
        Finding("Overlong Titles", Sent(Uw, 4, lwE) \o Sent(Uw, 10, lwE))>>,
      <<st.dupTitleCnt > 0,
        Finding("Duplicate Titles",
          <<Uw>> \o L(4) \o <<HstE(h)>> \o Sent(Uw, 6, lwE))>>,
      <<pct(st.metaOK, st.total) < 80,
        Finding("Thin Previews",
          <<Uw, Uw>> \o L(4) \o <<lwE>> \o Sent(Uw, 9, lwE))>>,
      <<st.thinPages > 0,
        Finding("Thin Sections",
          <<Uw>> \o L(3) \o <<Uw, lwE>> \o Sent(Uw, 8, lwE))>>,
      <<st.avgWords < 400,
        Finding("Shallow Average Depth",
          <<Uw, lw, Uw>> \o L(5) \o <<lwE>> \o Sent(Uw, 5, lwE))>>,
      <<st.h1None > 0,
        Finding("Missing H1", Sent(Uw, 6, lwE) \o Sent(Uw, 2, lwE))>>,
      <<st.h1Multi > 0,
        Finding("Multiple H1 Anchors", Sent(Uw, 5, lwE) \o Sent(Uw, 6, lwE))>>,
      <<st.avgInt < 6,
        \* "... feel longer than they need to."
        Finding("Sparse Trails",
          <<Uw>> \o L(2) \o <<Uw, lw, lwE>>
          \o <<Uw>> \o L(7) \o <<[s |-> FALSE, e |-> TRUE, k |-> "modal"]>>)>>,
      <<st.weakInt > 0,
        Finding("Isolated Pages", Sent(Uw, 6, lwE) \o Sent(Uw, 7, lwE))>>,
      <<st.schemaPages < Ceil70(st.total),
        Finding("Typed Context Gaps",
          <<Uw>> \o L(2) \o <<Uw>> \o L(3) \o <<HstE(h)>> \o Sent(Uw, 7, lwE))>>,
      <<st.avgAltPct < 70,
        Finding("Alt-Text Thin Spots", Sent(Uw, 4, lwE) \o Sent(Uw, 6, lwE))>>,
      <<st.crumbs < Ceil40(st.total),
        Finding("Few Breadcrumbs",
          <<Uw, Uw>> \o L(4) \o <<lwE>> \o Sent(Uw, 7, lwE))>>,
      <<st.navPct < 80 \/ st.footPct < 80,
        Finding("Template Drift",
          <<Uw>> \o L(3) \o <<Uw, lw, UwE>> \o Sent(Uw, 6, lwE))>>,
      <<~isAnalyze
          /\ st.contactPhone + st.contactEmail + st.contactAddr < Ceil60(st.total),
        Finding("Light Contact Footprint",
          <<Uw>> \o L(4) \o <<HstE(h)>> \o Sent(Uw, 8, lwE))>>,
      <<~isAnalyze /\ st.socialAvg = 0,
        Finding("Quiet Social Surface", Sent(Uw, 4, lwE) \o Sent(Uw, 9, lwE))>>,
      <<~isAnalyze /\ st.extLinksAvg > 8,
        \* "The narrative steps outside the room ..."
        Finding("High External Link Density",
          Sent(Uw, 4, lwE)
          \o <<Uw, lw, [s |-> FALSE, e |-> FALSE, k |-> "noun"]>> \o L(8) \o <<lwE>>)>> >>)

\* const seeds = [...]: the descriptions of the five filler findings
SeedDescriptions ==
    << <<Uw, lw, lwE>> \o Sent(Uw, 9, lwE),
       Sent(Uw, 5, lwE) \o Sent(Uw, 8, lwE),
       Sent(Uw, 3, lwE) \o Sent(Uw, 9, lwE),
       <<Uw>> \o L(2) \o <<Uw, lw, lwE>> \o Sent(Uw, 8, lwE),
       <<Uw, lw, Uw, lw, lwE>> \o Sent(Uw, 10, lwE) >>

\* the while loop of grow, from iteration i on
\* the filler pushed under its bare seed title (the suffix only in the test)
RECURSIVE GrowLoop_unsuffixedPush(_, _, _)
GrowLoop_unsuffixedPush(arr, target, i) ==
    IF ~(Len(arr) < target /\ i < Len(SeedTitles) * SeedCycles) THEN arr
    ELSE LET j    == (i % Len(SeedTitles)) + 1
             cand == Finding(SeedTitles[j] \o SeedSuffix(i), SeedDescriptions[j])
             dup  == \E k \in DOMAIN arr :
                        toLowerCase(arr[k].title) = toLowerCase(cand.title)
         IN  GrowLoop_unsuffixedPush(
                 IF dup THEN arr
                 ELSE Append(arr, Finding(SeedTitles[j], SeedDescriptions[j])),
                 target, i + 1)

RECURSIVE GrowLoop(_, _, _)
GrowLoop(arr, target, i) ==
    IF ~(Len(arr) < target /\ i < Len(SeedTitles) * SeedCycles) THEN arr
    ELSE LET j    == (i % Len(SeedTitles)) + 1
             cand == Finding(SeedTitles[j] \o SeedSuffix(i), SeedDescriptions[j])
             dup  == \E k \in DOMAIN arr :
                        toLowerCase(arr[k].title) = toLowerCase(cand.title)
         IN  GrowLoop(IF dup THEN arr ELSE Append(arr, cand), target, i + 1)

\* arr.map((x,k) => ({...x, description: polish(x.description, mode, domain, k)}))
PolishAll(arr, mode, domain) ==
    [k \in DOMAIN arr |->
        Finding(arr[k].title, polish(arr[k].description, mode, domain, k - 1))]

\* a list that is too long keeps its last entries instead of its first
grow_keepLast(arr, target, domain, mode) ==
    IF Len(arr) >= target
    THEN PolishAll(Drop(arr, Len(arr) - target), mode, domain)
    ELSE Take(PolishAll(GrowLoop(arr, target, 0), mode, domain), target)

grow(arr, target, domain, mode) ==
    IF Len(arr) >= target
    THEN Take(PolishAll(arr, mode, domain), target)
    ELSE Take(PolishAll(GrowLoop(arr, target, 0), mode, domain), target)

\* a filler finding in the place of the crawl-failure finding
CrawlFailedFinding_seed(h) == Finding(SeedTitles[1], SeedDescriptions[1])

CrawlFailedFinding(h) ==
    Finding("Site Crawl Failed",
        <<Uw>> \o L(2) \o <<Hst(h)>> \o L(3) \o <<lwE>> \o Sent(Uw, 7, lwE))

generateCompleteAnalysis(pd, h, rt) ==
    IF Len(pd) = 0
    THEN [working |-> <<>>,
          needsAttention |-> <<CrawlFailedFinding(h)>>,
          qualityScore |-> 30]
    ELSE
    LET isAnalyze == rt = "analyze"
        score     == calculateQualityScore(pd)
        targets   == targetsFor(rt, score)
        st        == Stats(pd)
        Wuniq     == uniqueByTitle(WorkingCandidates(st, h))
        Nuniq     == uniqueByTitle(NeedsCandidates(st, h, isAnalyze))
        mode      == IF isAnalyze THEN "analyze" ELSE "full"
    IN  [working        |-> grow(Wuniq, targets.working, h, mode),
         needsAttention |-> grow(Nuniq, targets.needs, h, mode),
         qualityScore   |-> score]

-----------------------------------------------------------------------------
(* generateAIInsights: one description per engine.  The word that names    *)
(* the engine has the engine's name as its kind k.                         *)

EngineOrder == <<"ChatGPT", "Claude", "Gemini", "Copilot", "Perplexity">>

Eng(name) == [s |-> TRUE, e |-> FALSE, k |-> name]

\* the five template texts of a non-empty page list, with Claude and Gemini
\* in each other's place
InsightTexts_swapped(pd, h) ==
    <<Concat(<<<<Eng("ChatGPT")>> \o L(2) \o <<Uw>> \o L(2) \o <<Hst(h)>> \o L(3), <<lwE>>,
               Sent(Uw, 11, lwE), Sent(Uw, 8, lwE)>>),
      Concat(<<<<Eng("Gemini"), lw, lw, Hst(h)>> \o L(8), <<lwE>>, Sent(Uw, 8, lwE)>>),
      Concat(<<<<Eng("Claude"), lw, lw, Hst(h)>> \o L(12), <<lwE>>, Sent(Uw, 13, lwE)>>),
      Concat(<<<<Eng("Copilot")>> \o L(13), <<lwE>>, Sent(Uw, 5, lwE)>>),
      Concat(<<<<Eng("Perplexity")>> \o L(12), <<lwE>>, Sent(Uw, 5, lwE)>>)>>

\* const texts = [...]: the five template texts of a non-empty page list
InsightTexts(pd, h) ==
    LET total         == Len(pd)
        idx           == DOMAIN pd
        avgWords      == avg([i \in idx |-> pd[i].wordCount])
        avgLinks      == avg([i \in idx |-> pd[i].internalLinkCount])
        schemaPages   == CountIdx({i \in idx : pd[i].hasSchema})
        properH1Pages == CountIdx({i \in idx : pd[i].h1Count = 1})
        metaPages     == CountIdx({i \in idx : pd[i].metaDescLen > 0})
        httpsPages    == CountIdx({i \in idx : pd[i].hasSSL})
        \* n >= total * 0.8, n >= total * 0.7, n >= total * 0.6
        ge80(n) == 10 * n >= 8 * total
        ge70(n) == 10 * n >= 7 * total
        ge60(n) == 10 * n >= 6 * total
    IN  <<\* ChatGPT review across ${total} pages on ${host} notes ... headings.
          \* Coverage ..., which shapes how claims hold together when lifted.
          \* Typed hints ...; previews ...
          Concat(<<
            <<Eng("ChatGPT")>> \o L(2) \o <<Uw>> \o L(2) \o <<Hst(h)>> \o <<lw>>,
            IF properH1Pages = total THEN L(2) \o <<lwE>>
            ELSE <<Uw>> \o L(3) \o <<lwE>>,
            Sent(Uw, 11, lwE),
            <<Uw>> \o L(IF ge80(schemaPages) THEN 5 ELSE 4) \o <<lw>>
                   \o L(IF ge80(metaPages) THEN 2 ELSE 5) \o <<lwE>> >>),
          \* Claude view of ${host} observes ..., with ... setting trust tone.
          \* Trails feel ... and that distance affects ... out of context.
          Concat(<<
            <<Eng("Claude"), lw, lw, Hst(h), lw>>,
            L(IF ge70(schemaPages) THEN 4 ELSE 5) \o L(6) \o <<lwE>>,
            Sent(Uw, 12, lwE) >>),
          \* Gemini perspective on ${host} sees ... and ....
          \* Headings ..., which nudges how summaries are stitched.
          Concat(<<
            <<Eng("Gemini"), lw, lw, Hst(h), lw>>,
            L(2) \o <<lw>> \o L(4) \o <<lwE>>,
            Sent(Uw, 7, lwE) >>),
          \* Copilot pass finds ... across the set, with coverage that ....
          \* Trust cues ....
          Concat(<<
            <<Eng("Copilot")>> \o L(2),
            L(IF ge80(properH1Pages) THEN 3 ELSE 2) \o L(4)
                \o L(IF avgWords >= 500 THEN 3 ELSE 4) \o <<lwE>>,
            Sent(Uw, IF httpsPages = total THEN 5 ELSE 4, lwE) >>),
          \* Perplexity read notes previews that ... and ....
          \* Typed context helps ... / Un-typed pockets let ....
          Concat(<<
            <<Eng("Perplexity")>> \o L(2),
            L(5) \o <<lw>>
                \o L(IF avgLinks >= 4 THEN 4 ELSE 5) \o <<lwE>>,
            Sent(Uw, IF ge60(schemaPages) THEN 5 ELSE 6, lwE) >>) >>

\* analyzeLLM: one paragraph, padded to 3 sentences, at most 5 kept
analyzeLLM(text, h) ==
    LET s == PadTo(splitSents(text), 3, h, 0)
    IN  <<JoinSpace(Take(s, 5))>>

\* fullLLM: padded to 6 sentences, split in two paragraphs
fullLLM(text, h) ==
    LET s   == PadTo(splitSents(text), 6, h, 0)
        mid == CeilDiv(Len(s), 2)
    IN  <<JoinSpace(Take(s, mid)), JoinSpace(Drop(s, mid))>>

\* Crawl didn't surface pages for ${host}. Access posture, not content
\* posture, seems to be the limiter.
NoPagesMessage(h) == <<Uw>> \o L(4) \o <<HstE(h)>> \o Sent(Uw, 8, lwE)

generateAIInsights(pd, h, mode) ==
    LET format(t) == IF mode = "analyze" THEN analyzeLLM(t, h) ELSE fullLLM(t, h)
    IN  IF Len(pd) = 0
        THEN [i \in DOMAIN EngineOrder |->
                [description |-> JoinBreak(format(NoPagesMessage(h)))]]
        ELSE LET texts == InsightTexts(pd, h)
             IN  [i \in DOMAIN texts |->
                    [description |-> JoinBreak(format(texts[i]))]]

-----------------------------------------------------------------------------
(* URLs and hrefs.  A URL string is [scheme, host, path, query, frag]:     *)
(* scheme "://" host, then "/" seg for every element of path, then         *)
(* "?" query and "#" frag when not empty.  "https://example.com" has the   *)
(* empty path, "https://example.com/" the path <<"">>.  A href is the same *)
(* record with rel = TRUE when its text starts with "/" ("/about", or the  *)
(* protocol-relative "//cdn.net/lib", which carries a host).               *)

NoUrl == [scheme |-> "", host |-> "", path |-> <<>>, query |-> "", frag |-> ""]

Url(scheme, h, path) ==
    [scheme |-> scheme, host |-> h, path |-> path, query |-> "", frag |-> ""]

Href(rel, scheme, h, path, query, frag) ==
    [rel |-> rel, scheme |-> scheme, host |-> h, path |-> path,
     query |-> query, frag |-> frag]

\* String.prototype.replace(/^www\./, '') on the host names of the model
StripWww(h) ==
    CASE h = "www.example.com"   -> "example.com"
      [] h = "www.yoramezra.com" -> "yoramezra.com"
      [] OTHER                   -> h

\* the host name is kept as the URL has it
hostOf_keepWww(u) == IF u.scheme \notin {"http", "https"} THEN "" ELSE u.host

\* new URL(u).hostname.replace(/^www\./, ''); "mailto:" URLs have no
\* hostname, and a string that is no URL makes new URL throw: ''
hostOf(u) ==
    IF u.scheme \notin {"http", "https"} THEN "" ELSE StripWww(u.host)

\* String.prototype.includes on the pieces of text a href is made of
TextIncludes(piece, h) ==
    /\ h # ""
    /\ \/ piece = h
       \/ h = "example.com"
          /\ piece \in {"www.example.com", "notexample.com",
                        "info@example.com", "u=example.com"}

\* href.includes(host)
HrefIncludes(href, h) ==
    \/ h = ""
    \/ TextIncludes(href.host, h)
    \/ \E i \in DOMAIN href.path : TextIncludes(href.path[i], h)
    \/ TextIncludes(href.query, h)
    \/ TextIncludes(href.frag, h)

\* new URL(href, startUrl).href for a href that starts with "/"
ResolveUrl(href, start) ==
    [scheme |-> start.scheme,
     host   |-> IF href.host # "" THEN href.host ELSE start.host,
     path   |-> href.path, query |-> href.query, frag |-> href.frag]

\* href.split('#')[0].split('?')[0]
StripFragQuery(href) ==
    [scheme |-> href.scheme, host |-> href.host, path |-> href.path,
     query |-> "", frag |-> ""]

\* fullUrl.match(/\.(pdf|jpg|jpeg|png|gif|zip|doc|docx)$/i)
BinaryExtension(u) ==
    /\ u.query = "" /\ u.frag = ""
    /\ Len(u.path) > 0
    /\ u.path[Len(u.path)] \in {"doc.pdf", "logo.png"}

\* current.split('/').length: one more than the number of "/" in the string
SplitSlashLength(u) ==
    (IF u.scheme \in {"http", "https"} THEN 2 ELSE 0) + Len(u.path) + 1

\* level without Math.min(3, ...)
Level_noCap(u, start) ==
    IF u = start THEN 0 ELSE SplitSlashLength(u) - 3

\* level: current === startUrl ? 0 : Math.min(3, current.split('/').length - 3)
Level(u, start) ==
    IF u = start THEN 0 ELSE Min(3, SplitSlashLength(u) - 3)

\* hasSSL: current.startsWith('https://')
HasSSL(u) == u.scheme = "https"

\* the page was visited, but visited.add(current) is missing
MarkVisited_forgotten(vis, u) == vis

\* visited.add(current)
MarkVisited(vis, u) == vis \cup {u}

\* axios.get can only answer for an http(s) URL
CanFetch(u) == u.scheme \in {"http", "https"}

\* the URL a link is followed to; NoUrl when the link is not followed
FullUrl(href, start, h) ==
    IF href.rel THEN ResolveUrl(href, start)
    ELSE IF HrefIncludes(href, h) THEN StripFragQuery(href)
    ELSE NoUrl

\* the filter without !visited.has(fullUrl)
RECURSIVE EnqueueLinks_visitedAgain(_, _, _, _, _)
EnqueueLinks_visitedAgain(anchors, q, vis, start, h) ==
    IF Len(anchors) = 0 THEN q
    ELSE LET fullUrl == FullUrl(Head(anchors), start, h)
             push    == /\ fullUrl # NoUrl
                        /\ fullUrl \notin SeqRange(q)
                        /\ ~BinaryExtension(fullUrl)
         IN  EnqueueLinks_visitedAgain(Tail(anchors),
                          IF push THEN Append(q, fullUrl) ELSE q,
                          vis, start, h)

\* $('a[href]').each(...): the queue after the links of a page were looked at
RECURSIVE EnqueueLinks(_, _, _, _, _)
EnqueueLinks(anchors, q, vis, start, h) ==
    IF Len(anchors) = 0 THEN q
    ELSE LET fullUrl == FullUrl(Head(anchors), start, h)
             push    == /\ fullUrl # NoUrl
                        /\ fullUrl \notin vis
                        /\ fullUrl \notin SeqRange(q)
                        /\ ~BinaryExtension(fullUrl)
         IN  EnqueueLinks(Tail(anchors),
                          IF push THEN Append(q, fullUrl) ELSE q,
                          vis, start, h)

\* ---- the web: start URLs and the anchor lists a fetched page may carry ----

StartUrls ==
    { Url("https", "example.com", <<>>),             \* https://example.com
      Url("http", "www.example.com", <<"">>) }       \* http://www.example.com/

hRoot     == Href(TRUE, "", "", <<"">>, "", "")                   \* /
hAbout    == Href(TRUE, "", "", <<"about">>, "", "")              \* /about
hTeam     == Href(TRUE, "", "", <<"about", "team">>, "", "")      \* /about/team
hDeep     == Href(TRUE, "", "", <<"a", "b", "c", "d">>, "", "")   \* /a/b/c/d
hPdf      == Href(TRUE, "", "", <<"doc.pdf">>, "", "")            \* /doc.pdf
hCdn      == Href(TRUE, "", "cdn.net", <<"lib">>, "", "")         \* //cdn.net/lib
\* https://example.com
hHomeAbs  == Href(FALSE, "https", "example.com", <<>>, "", "")
\* https://example.com/about?ref=nav#top
hAboutAbs == Href(FALSE, "https", "example.com", <<"about">>, "ref=nav", "top")
\* https://evil.net/x
hEvil     == Href(FALSE, "https", "evil.net", <<"x">>, "", "")
\* https://evil.net/r/example.com
hEvilPath == Href(FALSE, "https", "evil.net", <<"r", "example.com">>, "", "")
\* https://evil.net/?u=example.com
hEvilQry  == Href(FALSE, "https", "evil.net", <<"">>, "u=example.com", "")
\* mailto:info@example.com
hMail     == Href(FALSE, "mailto", "info@example.com", <<>>, "", "")

AnchorLists ==
    { <<>>,
      <<hRoot, hAbout, hAbout>>,
      <<hAbout, hTeam, hDeep, hPdf>>,
      <<hHomeAbs, hAboutAbs, hEvil>>,
      <<hEvilPath, hAbout>>,
      <<hMail, hCdn, hEvilQry>>,
      <<hDeep, hRoot>> }

\* a site without end: the page of the n-th fetch links to two pages that no
\* earlier page linked to
hFresh(n) == Href(TRUE, "", "", <<"p" \o ToString(n)>>, "", "")       \* /p<n>

AnchorListsAt(n) == AnchorLists \cup { <<hFresh(2 * n), hFresh(2 * n + 1)>> }

-----------------------------------------------------------------------------
(* crawlSitePages: one crawl, a step per suspension point *)

\* one queue.push, as the history keeps it: the URL, the page whose links
\* were being read, that page's level and pages.length at that moment
Pushed(u, from, fromLevel, count) ==
    [url |-> u, from |-> from, fromLevel |-> fromLevel, pagesAfter |-> count]

CrawlInit ==
    /\ startUrl \in StartUrls
    /\ maxPages \in 1..MaxCrawlPages
    /\ queue = <<startUrl>>
    /\ current = NoUrl
    /\ visited = {}
    /\ pages = <<>>
    /\ fetched = <<>>
    /\ failed = {}
    /\ enqueued = <<Pushed(startUrl, NoUrl, 0, 0)>>
    /\ crawlPc = "loop"
    /\ pagesData = <<>> /\ host = "" /\ reportType = "analyze"
    /\ NoCalls /\ NoReport /\ NoServer

LoopTest == Len(queue) > 0 /\ Len(pages) < maxPages

\* queue.pop() in place of queue.shift()
shift_pop(q) == [item |-> q[Len(q)], rest |-> SubSeq(q, 1, Len(q) - 1)]

\* queue.shift(): the first element, and the queue without it
shift(q) == [item |-> Head(q), rest |-> Tail(q)]

\* links are read whatever the level of the page
MayDiscover_noLevelTest(pageData, count, cap) == count < cap

\* if (pageData.level < 3 && pages.length < maxPages)
MayDiscover(pageData, count, cap) == pageData.level < 3 /\ count < cap

\* const current = queue.shift(); if (visited.has(current)) continue;
\* visited.add(current); ... await axios.get(current, ...)
CrawlDequeue ==
    /\ crawlPc = "loop" /\ LoopTest
    /\ current' = shift(queue).item
    /\ queue' = shift(queue).rest
    /\ IF current' \in visited
       THEN UNCHANGED <<visited, fetched, crawlPc>>
       ELSE /\ visited' = MarkVisited(visited, current')
            /\ fetched' = Append(fetched, current')
            /\ crawlPc' = "fetch"
    /\ UNCHANGED <<startUrl, maxPages, pages, failed, enqueued>>
    /\ UNCHANGED analysisVars
    /\ UNCHANGED serverVars

\* the response arrived: pageData is built and pushed, links are enqueued
CrawlFetchOk ==
    /\ crawlPc = "fetch" /\ CanFetch(current)
    /\ \E anchors \in AnchorListsAt(Len(fetched)) :
          LET pageData == [url |-> current, level |-> Level(current, startUrl),
                           hasSSL |-> HasSSL(current)]
              pushed   == Append(pages, pageData)
              grown    == IF MayDiscover(pageData, Len(pushed), maxPages)
                          THEN EnqueueLinks(anchors, queue, visited, startUrl,
                                            hostOf(startUrl))
                          ELSE queue
          IN  /\ pages' = pushed
              /\ queue' = grown
              /\ enqueued' = enqueued \o
                    [i \in 1..(Len(grown) - Len(queue)) |->
                        Pushed(grown[Len(queue) + i], current, pageData.level,
                               Len(pushed))]
    /\ crawlPc' = "loop"
    /\ UNCHANGED <<startUrl, maxPages, current, visited, fetched, failed>>
    /\ UNCHANGED analysisVars
    /\ UNCHANGED serverVars

\* the catch block sends the request again
CrawlFetchFail_retry ==
    /\ crawlPc = "fetch"
    /\ failed' = failed \cup {current}
    /\ crawlPc' = "fetch"
    /\ UNCHANGED <<startUrl, maxPages, queue, current, visited, pages,
                   fetched, enqueued>>
    /\ UNCHANGED analysisVars
    /\ UNCHANGED serverVars

\* the error leaves the loop and ends the crawl
CrawlFetchFail_abort ==
    /\ crawlPc = "fetch"
    /\ failed' = failed \cup {current}
    /\ crawlPc' = "done"
    /\ UNCHANGED <<startUrl, maxPages, queue, current, visited, pages, fetched,
                   enqueued>>
    /\ UNCHANGED analysisVars
    /\ UNCHANGED serverVars

\* axios.get threw (network error, status, timeout): catch, log, next turn
CrawlFetchFail ==
    /\ crawlPc = "fetch"
    /\ failed' = failed \cup {current}
    /\ crawlPc' = "loop"
    /\ UNCHANGED <<startUrl, maxPages, queue, current, visited, pages, fetched,
                   enqueued>>
    /\ UNCHANGED analysisVars
    /\ UNCHANGED serverVars

\* the while test fails: return pages
CrawlReturn ==
    /\ crawlPc = "loop" /\ ~LoopTest
    /\ crawlPc' = "done"
    /\ UNCHANGED <<startUrl, maxPages, queue, current, visited, pages, fetched,
                   failed, enqueued>>
    /\ UNCHANGED analysisVars
    /\ UNCHANGED serverVars

CrawlNext == CrawlDequeue \/ CrawlFetchOk \/ CrawlFetchFail \/ CrawlReturn

CrawlSpec == CrawlInit /\ [][CrawlNext]_vars

\* every pending fetch completes, and the loop itself keeps running
CrawlLiveSpec == CrawlSpec /\ WF_vars(CrawlNext)

-----------------------------------------------------------------------------
(* Spec: the analysis functions applied to bounded inputs *)

\* no crawl is running
NoCrawl ==
    /\ startUrl = NoUrl /\ maxPages = 0 /\ queue = <<>> /\ current = NoUrl
    /\ visited = {} /\ pages = <<>> /\ fetched = <<>> /\ crawlPc = "idle"
    /\ failed = {} /\ enqueued = <<>>

\* calls of the analysis functions made so far
CallsSoFar == scoreCalls + analysisCalls + insightsCalls

Init ==
    /\ pagesData \in PageLists
    /\ host \in Hosts
    /\ reportType \in ReportTypes
    /\ NoCalls /\ NoReport /\ NoCrawl /\ NoServer

\* a call calculateQualityScore(pagesData)
CalculateQualityScore ==
    /\ scoreCalls < MaxScoreCalls /\ CallsSoFar < MaxCalls
    /\ scoreCalls' = scoreCalls + 1
    /\ scoreLog' = scoreLog \cup {calculateQualityScore(pagesData)}
    /\ UNCHANGED <<pagesData, host, reportType, analysis, analysisCalls,
                   analysisLog, insights, insightsCalls, insightsLog,
                   report, azPc>>
    /\ UNCHANGED crawlVars
    /\ UNCHANGED serverVars

\* a call generateCompleteAnalysis(pagesData, host, reportType)
GenerateCompleteAnalysis ==
    /\ CallsSoFar < MaxCalls
    /\ analysisCalls' = analysisCalls + 1
    /\ analysis' = generateCompleteAnalysis(pagesData, host, reportType)
    /\ analysisLog' = analysisLog \cup {analysis'}
    /\ UNCHANGED <<pagesData, host, reportType, scoreLog, scoreCalls,
                   insights, insightsCalls, insightsLog, report, azPc>>
    /\ UNCHANGED crawlVars
    /\ UNCHANGED serverVars

\* a call generateAIInsights(pagesData, host, reportType)
GenerateAIInsights ==
    /\ CallsSoFar < MaxCalls
    /\ insightsCalls' = insightsCalls + 1
    /\ insights' = generateAIInsights(pagesData, host, reportType)
    /\ insightsLog' = insightsLog \cup {insights'}
    /\ UNCHANGED <<pagesData, host, reportType, scoreLog, scoreCalls,
                   analysis, analysisCalls, analysisLog, report, azPc>>
    /\ UNCHANGED crawlVars
    /\ UNCHANGED serverVars

Next == CalculateQualityScore \/ GenerateCompleteAnalysis

Spec == Init /\ [][Next]_vars

\* ---- the three functions called on one input, in any order ----

CallsInit ==
    /\ pagesData \in SeqsUpTo(PagePool, MaxListLen)
    /\ host \in Hosts
    /\ reportType \in ReportTypes
    /\ NoCalls /\ NoReport /\ NoCrawl /\ NoServer

CallsNext == CalculateQualityScore \/ GenerateCompleteAnalysis \/ GenerateAIInsights

CallsSpec == CallsInit /\ [][CallsNext]_vars

-----------------------------------------------------------------------------
(* analyzeWebsite(url, reportType): crawl, analyse, apply the override,    *)
(* and fall back to a fixed report when the try block throws.              *)

OVERRIDE == {"yoramezra.com", "quontora.com"}

highScore ==
    [pillars |-> [access |-> 22, trust |-> 23, clarity |-> 22, alignment |-> 22],
     score   |-> 89]

\* reportType === 'full' || reportType === 'full-report' ? 15 : 8
MaxPagesFor(rt) == IF rt \in {"full", "full-report"} THEN 15 ELSE 8

\* reportType === 'full' || reportType === 'full-report' ? 'full' : 'analyze'
ModeFor(rt) == IF rt \in {"full", "full-report"} THEN "full" ELSE "analyze"

\* the pillars as computed, without the clamp
Pillars_unclamped(pd) ==
    LET total == Len(pd)
        links == SumSeq([i \in DOMAIN pd |-> pd[i].internalLinkCount])
        ssl   == Cardinality({i \in DOMAIN pd : pd[i].hasSSL})
        h1    == Cardinality({i \in DOMAIN pd : pd[i].h1Count = 1})
        sch   == Cardinality({i \in DOMAIN pd : pd[i].hasSchema})
    IN  [access    |-> 18 + FloorDiv(links, 2 * total),
         trust     |-> 18 + (IF ssl = total THEN 3 ELSE 0),
         clarity   |-> 18 + (IF h1 = total THEN 3 ELSE 0),
         alignment |-> 18 + FloorDiv(4 * sch, total)]

\* const pillars = { access: clamp(18 + Math.floor((sum / n) / 2), 15, 25), ... }
\* (Math.floor((a / n) / 2) = floor(a / 2n), Math.floor((s / n) * 4) = floor(4s / n))
Pillars(pd) ==
    LET total == Len(pd)
        links == SumSeq([i \in DOMAIN pd |-> pd[i].internalLinkCount])
        ssl   == Cardinality({i \in DOMAIN pd : pd[i].hasSSL})
        h1    == Cardinality({i \in DOMAIN pd : pd[i].h1Count = 1})
        sch   == Cardinality({i \in DOMAIN pd : pd[i].hasSchema})
    IN  [access    |-> clamp(18 + FloorDiv(links, 2 * total), 15, 25),
         trust     |-> clamp(18 + (IF ssl = total THEN 3 ELSE 0), 15, 25),
         clarity   |-> clamp(18 + (IF h1 = total THEN 3 ELSE 0), 15, 25),
         alignment |-> clamp(18 + FloorDiv(4 * sch, total), 15, 25)]

\* for an override host the needsAttention list is cut to the target of the
\* override score
tryAnalyze_targetsFromOverride(pd, h, rt) ==
    LET a       == generateCompleteAnalysis(pd, h, rt)
        pillars == IF h \in OVERRIDE THEN highScore.pillars ELSE Pillars(pd)
        score   == IF h \in OVERRIDE THEN highScore.score ELSE a.qualityScore
    IN  [working        |-> a.working,
         needsAttention |-> IF h \in OVERRIDE
                            THEN Take(a.needsAttention, targetsFor(rt, highScore.score).needs)
                            ELSE a.needsAttention,
         insights       |-> generateAIInsights(pd, h, ModeFor(rt)),
         pillars        |-> pillars,
         score          |-> score]

\* the try block once crawlSitePages returned a non-empty list
tryAnalyze(pd, h, rt) ==
    LET a       == generateCompleteAnalysis(pd, h, rt)
        pillars == IF h \in OVERRIDE THEN highScore.pillars ELSE Pillars(pd)
        score   == IF h \in OVERRIDE THEN highScore.score ELSE a.qualityScore
    IN  [working        |-> a.working,
         needsAttention |-> a.needsAttention,
         insights       |-> generateAIInsights(pd, h, ModeFor(rt)),
         pillars        |-> pillars,
         score          |-> score]

\* Crawl for ${host} fell short — this looks more like an access posture
\* than a content posture.
IncompleteFinding(h) ==
    Finding("Analysis Incomplete", <<Uw, lw, Hst(h)>> \o L(13) \o <<lwE>>)

AnalysisFallbackScore == 60

\* a catch block that reports the analysis of the empty page list
catchAnalyze_analysisOfNothing(h, rt) ==
    LET a == generateCompleteAnalysis(<<>>, h, rt)
    IN  [working        |-> a.working,
         needsAttention |-> a.needsAttention,
         insights       |-> generateAIInsights(<<>>, h, rt),
         pillars        |-> [access |-> 15, trust |-> 15, clarity |-> 15,
                             alignment |-> 15],
         score          |-> a.qualityScore]

\* a catch block that gives an override host its constants
catchAnalyze_overrideKept(h, rt) ==
    [working        |-> <<>>,
     needsAttention |-> <<IncompleteFinding(h)>>,
     insights       |-> generateAIInsights(<<>>, h, rt),
     pillars        |-> IF h \in OVERRIDE THEN highScore.pillars
                        ELSE [access |-> 15, trust |-> 15, clarity |-> 15,
                              alignment |-> 15],
     score          |-> IF h \in OVERRIDE THEN highScore.score
                        ELSE AnalysisFallbackScore]

\* the catch block
catchAnalyze(h, rt) ==
    [working        |-> <<>>,
     needsAttention |-> <<IncompleteFinding(h)>>,
     insights       |-> generateAIInsights(<<>>, h, rt),
     pillars        |-> [access |-> 15, trust |-> 15, clarity |-> 15,
                         alignment |-> 15],
     score          |-> AnalysisFallbackScore]

\* ---- the calls of analyzeWebsite ----

\* "example.com" is no URL: new URL throws on it
AnalyzeUrls ==
    { Url("https", "example.com", <<>>),
      Url("https", "www.yoramezra.com", <<"">>),
      Url("http", "quontora.com", <<>>),
      Url("https", "notquontora.com", <<>>),
      Url("", "example.com", <<>>) }

AnalyzeReportTypes == {"analyze", "full", "full-report"}

\* a page whose internal links push the access pillar to its clamp
LinkHeavyPage ==
    MkPage(TRUE, 650, 1, 40, FALSE, "Home", 140, 4, 4,
           TRUE, TRUE, TRUE, 2, 3, TRUE)

\* a long read: its words lift the average depth of any list it is in
LongReadPage ==
    MkPage(TRUE, 2400, 1, 6, TRUE, "Home", 140, 4, 4,
           FALSE, TRUE, TRUE, 2, 3, TRUE)

\* the lists crawlSitePages(url, cap) may resolve to: at most cap pages of
\* the site, none when the start URL cannot be fetched
CrawlOutcomes(u, cap) ==
    IF CanFetch(u)
    THEN SeqsUpTo(PagePool \cup {LinkHeavyPage, LongReadPage},
                  Min(MaxListLen, cap))
    ELSE {<<>>}

AnalyzeInit ==
    /\ startUrl \in AnalyzeUrls
    /\ reportType \in AnalyzeReportTypes
    /\ host = hostOf(startUrl)
    /\ maxPages = MaxPagesFor(reportType)
    /\ pagesData = <<>>
    /\ NoCalls /\ NoServer
    /\ report = NoResult /\ azPc = "crawl"
    /\ queue = <<>> /\ current = NoUrl /\ visited = {} /\ pages = <<>>
    /\ fetched = <<>> /\ failed = {} /\ enqueued = <<>> /\ crawlPc = "idle"

\* const pagesData = await crawlSitePages(url, maxPages)
AnalyzeCrawlReturns ==
    /\ azPc = "crawl"
    /\ pagesData' \in CrawlOutcomes(startUrl, maxPages)
    /\ azPc' = "crawled"
    /\ UNCHANGED <<host, reportType, scoreLog, scoreCalls, analysis,
                   analysisCalls, analysisLog, insights, insightsCalls,
                   insightsLog, report>>
    /\ UNCHANGED crawlVars
    /\ UNCHANGED serverVars

\* the rest of the try block, and the return
AnalyzeTry ==
    /\ azPc = "crawled" /\ Len(pagesData) # 0
    /\ report' = tryAnalyze(pagesData, host, reportType)
    /\ azPc' = "done"
    /\ UNCHANGED <<pagesData, host, reportType, scoreLog, scoreCalls, analysis,
                   analysisCalls, analysisLog, insights, insightsCalls,
                   insightsLog>>
    /\ UNCHANGED crawlVars
    /\ UNCHANGED serverVars

\* if (pagesData.length === 0) throw ...; the catch block returns
AnalyzeCatch ==
    /\ azPc = "crawled" /\ Len(pagesData) = 0
    /\ report' = catchAnalyze(host, reportType)
    /\ azPc' = "done"
    /\ UNCHANGED <<pagesData, host, reportType, scoreLog, scoreCalls, analysis,
                   analysisCalls, analysisLog, insights, insightsCalls,
                   insightsLog>>
    /\ UNCHANGED crawlVars
    /\ UNCHANGED serverVars

AnalyzeNext == AnalyzeCrawlReturns \/ AnalyzeTry \/ AnalyzeCatch

AnalyzeSpec == AnalyzeInit /\ [][AnalyzeNext]_vars

-----------------------------------------------------------------------------
(* Properties of the analysis functions (checked under Spec) *)

Analysed == analysis # NoResult

\* the two lists of a returned analysis
ListsOf(a) == {a.working, a.needsAttention}

\* every description returned in the analysis
DescriptionsOf(a) ==
    UNION {{l[i].description : i \in DOMAIN l} : l \in ListsOf(a)}

\* C1: for every page list, the empty one included, calculateQualityScore
\* returns an integer in [30,100], and the calls made on one list all return
\* the same value.
C1_ScoreInRangeAndStable ==
    /\ \A v \in scoreLog : v \in 30..100
    /\ Cardinality(scoreLog) <= 1
    /\ Analysed => analysis.qualityScore \in 30..100
    /\ Analysed => \A v \in scoreLog : v = analysis.qualityScore

C1_Witness ==
    /\ scoreCalls >= 2
    /\ Analysed
    /\ \/ pagesData = <<>>
       \/ Len(pagesData) >= 2

\* the score the formula of the scorer prescribes: the integer n nearest to
\* x = 40 + 10*https/total + wordBonus + 8*h1/total + linkBonus
\*        + 8*schema/total (n - 1/2 <= x < n + 1/2), clamped to [30,100]
PrescribedScore(pd) ==
    LET total  == Len(pd)
        https  == Cardinality({i \in DOMAIN pd : pd[i].hasSSL})
        h1     == Cardinality({i \in DOMAIN pd : pd[i].h1Count = 1})
        schema == Cardinality({i \in DOMAIN pd : pd[i].hasSchema})
        words  == SumSeq([i \in DOMAIN pd |-> pd[i].wordCount])
        links  == SumSeq([i \in DOMAIN pd |-> pd[i].internalLinkCount])
        wordBonus == CASE words >= 600 * total -> 12
                       [] words < 600 * total /\ words >= 400 * total -> 8
                       [] words < 400 * total /\ words >= 200 * total -> 4
                       [] words < 200 * total -> 0
        linkBonus == CASE links >= 6 * total -> 10
                       [] links < 6 * total /\ links >= 3 * total -> 6
                       [] links < 3 * total -> 0
        \* x * 2 * total
        x2t == 2 * ((40 + wordBonus + linkBonus) * total
                    + 10 * https + 8 * h1 + 8 * schema)
        n  == CHOOSE n \in 0..200 :
                 (2 * n - 1) * total <= x2t /\ x2t < (2 * n + 1) * total
    IN  IF n < 30 THEN 30 ELSE IF n > 100 THEN 100 ELSE n

\* C2: for every non-empty page list calculateQualityScore equals the
\* prescribed weighted-threshold formula, rounded and clamped to [30,100];
\* a single HTTPS page with one H1, 650 words, schema and 8 internal links
\* scores 88.
C2_ScoreFormula ==
    Len(pagesData) > 0 =>
        /\ \A v \in scoreLog : v = PrescribedScore(pagesData)
        /\ (/\ Len(pagesData) = 1
            /\ pagesData[1].hasSSL /\ pagesData[1].h1Count = 1
            /\ pagesData[1].wordCount = 650 /\ pagesData[1].hasSchema
            /\ pagesData[1].internalLinkCount = 8)
           => \A v \in scoreLog : v = 88

C2_Witness ==
    /\ scoreLog = {88}
    /\ Len(pagesData) = 1
    /\ pagesData[1].hasSSL /\ pagesData[1].h1Count = 1
    /\ pagesData[1].wordCount = 650 /\ pagesData[1].hasSchema
    /\ pagesData[1].internalLinkCount = 8

\* C3 (as claimed): for every non-empty page list and both modes the working
\* list has exactly the working target and the needsAttention list exactly
\* the needs target computed for (mode, score).
C3_ExactTargets ==
    (Analysed /\ Len(pagesData) > 0) =>
        LET t == targetsFor(reportType, calculateQualityScore(pagesData))
        IN  /\ Len(analysis.working) = t.working
            /\ Len(analysis.needsAttention) = t.needs

\* C4: in each returned list no two findings have titles that are equal after
\* trimming and lower-casing, also when fillers are taken from repeated seed
\* cycles.
C4_UniqueTitles ==
    Analysed =>
        \A l \in ListsOf(analysis) :
            \A i, j \in DOMAIN l : i # j => TitleKey(l[i]) # TitleKey(l[j])

\* a needsAttention list that took fillers from the third seed cycle
C4_Witness ==
    /\ Analysed
    /\ \E i \in DOMAIN analysis.needsAttention :
          analysis.needsAttention[i].title = "Preview Cadence * v4"
    /\ \E i \in DOMAIN analysis.needsAttention :
          analysis.needsAttention[i].title = "Preview Cadence"

SentenceCount(text) == Len(splitSents(text))

WellParagraphed(d) ==
    LET ps == Paragraphs(d)
    IN  /\ Len(ps) \in 1..3
        /\ \A i \in DOMAIN ps : SentenceCount(ps[i]) >= 3

-----------------------------------------------------------------------------
(* Properties of the crawler (checked under CrawlSpec) *)

\* C8: at every state of the crawl the result list has at most maxPages
\* entries, every entry has level at most 3, and the start URL's entry has
\* level 0.
C8_CrawlBounded ==
    /\ Len(pages) <= maxPages
    /\ \A i \in DOMAIN pages :
          /\ pages[i].level <= 3
          /\ pages[i].url = startUrl => pages[i].level = 0

\* the cap cut the crawl short with a page of level 3 in the result
C8_Witness ==
    /\ crawlPc = "done"
    /\ Len(pages) = maxPages
    /\ Len(queue) > 0
    /\ pages[1].url = startUrl
    /\ \E i \in DOMAIN pages : pages[i].level = 3

C10_SameHostOnly ==
    /\ \A i \in DOMAIN fetched : hostOf(fetched[i]) = hostOf(startUrl)
    /\ \A i \in DOMAIN pages : hostOf(pages[i].url) = hostOf(startUrl)

\* C11: a failed fetch does not end the crawl: the failed URL has no entry
\* in the result, no URL is handed to axios.get twice, and the crawl returns
\* only when the queue is empty or the result holds maxPages pages.
C11_FailureIsSkipped ==
    /\ \A u \in failed : \A i \in DOMAIN pages : pages[i].url # u
    /\ \A i, j \in DOMAIN fetched : i # j => fetched[i] # fetched[j]
    /\ failed \subseteq visited
    /\ crawlPc = "done" => (Len(queue) = 0 \/ Len(pages) >= maxPages)

\* a fetch failed and the crawl went on to fetch, with success, a URL that
\* was queued behind the failed one
C11_Witness ==
    /\ crawlPc = "done"
    /\ \E i \in DOMAIN fetched :
          /\ fetched[i] \in failed
          /\ \E j \in DOMAIN pages, k \in DOMAIN fetched :
                k > i /\ pages[j].url = fetched[k]

-----------------------------------------------------------------------------
(* C12 - analyzeWebsite always returns a report: working, needsAttention,  *)
(* exactly 5 insights, the four pillars and a score; when the crawl        *)
(* yielded no page the report has exactly one needsAttention finding and   *)
(* the fixed fallback score 60.                                            *)

Returned == azPc = "done"

C12_AlwaysAReport ==
    /\ azPc = "done" <=> report # NoResult
    /\ Returned =>
          /\ DOMAIN report = {"working", "needsAttention", "insights",
                              "pillars", "score"}
          /\ Len(report.insights) = 5
          /\ DOMAIN report.pillars = {"access", "trust", "clarity", "alignment"}
          /\ report.score \in Nat
    /\ (Returned /\ Len(pagesData) = 0) =>
          /\ Len(report.needsAttention) = 1
          /\ report.score = 60

\* the start URL was no URL at all, and a report came back all the same
C12_Witness ==
    /\ Returned /\ ~CanFetch(startUrl) /\ Len(pagesData) = 0
    /\ report.needsAttention[1].title = "Analysis Incomplete"


-----------------------------------------------------------------------------
(* C13 - on an empty page list calculateQualityScore returns exactly 30,   *)
(* and generateCompleteAnalysis returns no working finding, exactly one    *)
(* needsAttention finding, which describes the failed crawl of the host,   *)
(* and qualityScore 30.                                                    *)

DescribesCrawlFailure(f) ==
    /\ f.title = "Site Crawl Failed"
    /\ \E i \in DOMAIN f.description : f.description[i].k = "host"

C13_EmptyPageList ==
    pagesData = <<>> =>
        /\ \A v \in scoreLog : v = 30
        /\ Analysed =>
              /\ analysis.working = <<>>
              /\ Len(analysis.needsAttention) = 1
              /\ DescribesCrawlFailure(analysis.needsAttention[1])
              /\ analysis.qualityScore = 30

C13_Witness == pagesData = <<>> /\ Analysed /\ scoreLog # {}


-----------------------------------------------------------------------------
(* C14 - for a start URL whose host, leading "www." stripped, is in the    *)
(* override set and a crawl that returned at least one page, the report    *)
(* has score 89 and pillars access 22, trust 23, clarity 22, alignment 22, *)
(* whatever the signals of the crawled pages are.                          *)

OverrideSite ==
    /\ startUrl.scheme \in {"http", "https"}
    /\ startUrl.host \in {"yoramezra.com", "www.yoramezra.com",
                          "quontora.com", "www.quontora.com"}

OverrideReport ==
    /\ report.score = 89
    /\ report.pillars = [access |-> 22, trust |-> 23, clarity |-> 22,
                         alignment |-> 22]

C14_OverrideWhenCrawled ==
    (Returned /\ OverrideSite /\ Len(pagesData) > 0) => OverrideReport

\* the same for every crawl result, the empty one included
C14_OverrideAlways == (Returned /\ OverrideSite) => OverrideReport

\* a www. start URL whose pages score otherwise on their own signals
C14_Witness ==
    /\ Returned /\ startUrl.host = "www.yoramezra.com" /\ Len(pagesData) > 0
    /\ calculateQualityScore(pagesData) # 89
    /\ \A k \in DOMAIN report.pillars : Pillars(pagesData)[k] # report.pillars[k]
    /\ OverrideReport


-----------------------------------------------------------------------------
(* C15 - generateAIInsights returns exactly 5 entries for every page list, *)
(* the empty one included, in both modes; the entries stand in the order   *)
(* ChatGPT, Claude, Gemini, Copilot, Perplexity: an entry names no engine  *)
(* but the one of its position, and for a non-empty page list it opens     *)
(* with that engine's name.                                                *)

Insighted == insights # NoResult

EngineNames == {"ChatGPT", "Claude", "Gemini", "Copilot", "Perplexity"}

\* the engines the description d names
EnginesIn(d) == {d[j].k : j \in DOMAIN d} \cap EngineNames

C15_FiveInsightsInOrder ==
    Insighted =>
        /\ Len(insights) = 5
        /\ \A i \in 1..5 :
              LET name == <<"ChatGPT", "Claude", "Gemini", "Copilot",
                            "Perplexity">>[i]
                  d    == insights[i].description
              IN  /\ EnginesIn(d) \subseteq {name}
                  /\ Len(pagesData) > 0 => d[1].k = name

C15_Witness ==
    /\ Insighted /\ Len(pagesData) = MaxListLen /\ reportType = "full"
    /\ \A i \in 1..5 : EnginesIn(insights[i].description) # {}


-----------------------------------------------------------------------------
(* C16 - calls of calculateQualityScore, of generateCompleteAnalysis and   *)
(* of generateAIInsights with the same page list, host and mode return the *)
(* same value however many calls were made before: each function has       *)
(* returned at most one value, the one last returned.                      *)

-----------------------------------------------------------------------------
(* C17 - in every report of analyzeWebsite each of the four pillars is an  *)
(* integer in 15..25.  For a host outside the override set and a crawl of  *)
(* at least one page: trust is 21 when every page is HTTPS and 18          *)
(* otherwise; clarity is 21 when every page has exactly one H1 and 18      *)
(* otherwise; alignment is 18 + floor(4 * schema pages / pages); access is *)
(* min(25, 18 + floor(mean internal links / 2)).                           *)

\* floor(n / d) for n >= 0, d > 0: the q with q * d <= n < (q + 1) * d
FloorOfRatio(n, d) == CHOOSE q \in 0..n : q * d <= n /\ n < (q + 1) * d

PrescribedPillars(pd) ==
    LET total  == Len(pd)
        links  == SumSeq([i \in DOMAIN pd |-> pd[i].internalLinkCount])
        schema == Cardinality({i \in DOMAIN pd : pd[i].hasSchema})
        halfMean == FloorOfRatio(links, 2 * total)
    IN  [access    |-> IF 18 + halfMean > 25 THEN 25 ELSE 18 + halfMean,
         trust     |-> IF \A i \in DOMAIN pd : pd[i].hasSSL THEN 21 ELSE 18,
         clarity   |-> IF \A i \in DOMAIN pd : pd[i].h1Count = 1 THEN 21 ELSE 18,
         alignment |-> 18 + FloorOfRatio(4 * schema, total)]

C17_PillarValues ==
    Returned =>
        /\ \A k \in DOMAIN report.pillars : report.pillars[k] \in 15..25
        /\ (~OverrideSite /\ Len(pagesData) > 0) =>
              report.pillars = PrescribedPillars(pagesData)

\* the clamp acts on access, and alignment takes a fractional schema share
C17_Witness ==
    /\ Returned /\ ~OverrideSite /\ Len(pagesData) = 3
    /\ Pillars_unclamped(pagesData).access > 25
    /\ report.pillars = [access |-> 25, trust |-> 18, clarity |-> 18,
                         alignment |-> 19]


-----------------------------------------------------------------------------
(* C18 - crawlSitePages terminates, whatever the pages link to (each page  *)
(* may carry links to pages never seen before) and whichever fetches fail, *)
(* as long as every fetch completes and the loop goes on running; when it  *)
(* returns, the queue is empty or the result list holds maxPages pages.    *)

C18_Terminates ==
    /\ <>(crawlPc = "done")
    /\ [](crawlPc = "done" => (Len(queue) = 0 \/ Len(pages) >= maxPages))

\* stopped by the cap, after a failed fetch, with discovered URLs left over
C18_Witness ==
    /\ crawlPc = "done" /\ Len(pages) = maxPages /\ maxPages = MaxCrawlPages
    /\ failed # {}
    /\ \E i \in DOMAIN queue, n \in 0..(2 * Len(fetched) + 1) :
          queue[i].path = <<"p" \o ToString(n)>>


-----------------------------------------------------------------------------
(* C19 - apart from the start URL, a URL enters the queue only from a page *)
(* that was fetched successfully, whose depth is below 3, and after whose  *)
(* append the result list was still below maxPages.  Nothing is enqueued   *)
(* from a page of depth 3, from a failed URL, or from the page that filled *)
(* the cap.                                                                *)

\* the URLs that entered the queue while the page at u was processed
EnqueuedFrom(u) == {i \in 2..Len(enqueued) : enqueued[i].from = u}

C19_EnqueueOnlyBelowLimits ==
    /\ \A i \in 2..Len(enqueued) :
          \E j \in DOMAIN pages :
              /\ pages[j].url = enqueued[i].from
              /\ pages[j].level < 3
              /\ j < maxPages
              /\ enqueued[i].fromLevel = pages[j].level
              /\ enqueued[i].pagesAfter = j
    /\ \A j \in DOMAIN pages :
          (pages[j].level >= 3 \/ j >= maxPages) => EnqueuedFrom(pages[j].url) = {}
    /\ \A u \in failed : EnqueuedFrom(u) = {}

\* a page of depth 3 was fetched before the cap was met, a fetch failed,
\* and a page of depth below 3 did enqueue its links
C19_Witness ==
    /\ crawlPc = "done" /\ failed # {}
    /\ \E j \in DOMAIN pages : j < maxPages /\ pages[j].level >= 3
    /\ \E j \in DOMAIN pages : EnqueuedFrom(pages[j].url) # {}


-----------------------------------------------------------------------------
(* C20 - the crawl is first-in-first-out.  The URLs fetched so far are, in *)
(* order, the first URLs that were enqueued, the start URL first, and the  *)
(* queue holds the rest in enqueue order; links of one page are enqueued   *)
(* in document order; the result list holds, in fetch order, the fetched   *)
(* URLs whose fetch succeeded.  So the pages kept under the cap are the    *)
(* earliest-discovered ones.                                               *)

\* the fetch of u has ended and did not fail
FetchSucceeded(u) == u \notin failed /\ ~(crawlPc = "fetch" /\ u = current)

\* the anchor lists that hold both have /about before /about/team, and
\* /a/b/c/d before /
InDocumentOrder(i, j) ==
    LET a == enqueued[i].url.path
        b == enqueued[j].url.path
    IN  (\/ a = <<"about">> /\ b = <<"about", "team">>
         \/ a = <<"a", "b", "c", "d">> /\ b = <<"">>) => i < j

C20_FirstInFirstOut ==
    /\ enqueued[1].url = startUrl
    /\ Len(fetched) <= Len(enqueued)
    /\ \A i \in DOMAIN fetched : fetched[i] = enqueued[i].url
    /\ queue = [k \in 1..(Len(enqueued) - Len(fetched)) |->
                    enqueued[Len(fetched) + k].url]
    /\ \A i, j \in DOMAIN enqueued :
          enqueued[i].from = enqueued[j].from => InDocumentOrder(i, j)
    /\ [j \in DOMAIN pages |-> pages[j].url] = SelectSeq(fetched, FetchSucceeded)

\* the cap cut the crawl short: URLs discovered later were left in the
\* queue, and an earlier fetch had failed
C20_Witness ==
    /\ crawlPc = "done" /\ Len(pages) = maxPages /\ maxPages = MaxCrawlPages
    /\ Len(queue) >= 2 /\ failed # {}


-----------------------------------------------------------------------------
(* C21 - candidate generation, by signal check.  For every non-empty page  *)
(* list: the HTTPS, title, meta description, heading, internal link and    *)
(* schema checks each put findings into exactly one of the two lists; the  *)
(* alt text, breadcrumb and nav/footer checks never put findings into both *)
(* lists (they may put none into either).  The content depth check is not  *)
(* constrained: it may feed both lists or neither.                         *)

\* a signal check is named by the title of its working finding; these are
\* the titles of its needsAttention findings
NeedsTitlesOf(check) ==
    CASE check = "Complete HTTPS Security"          -> {"HTTPS Gaps"}
      [] check = "Title Coverage & Differentiation" ->
            {"Missing Titles", "Overlong Titles", "Duplicate Titles"}
      [] check = "Meta Description Presence"        -> {"Thin Previews"}
      [] check = "Structured Data Footprint"        -> {"Typed Context Gaps"}
      [] check = "Internal Path Consistency"        -> {"Sparse Trails", "Isolated Pages"}
      [] check = "Image Alt Coverage"               -> {"Alt-Text Thin Spots"}
      [] check = "Substantial Content Depth"        ->
            {"Thin Sections", "Shallow Average Depth"}
      [] check = "Clear Heading Spine"              -> {"Missing H1", "Multiple H1 Anchors"}
      [] check = "Template Consistency"             -> {"Template Drift"}
      [] check = "Breadcrumb Traces"                -> {"Few Breadcrumbs"}

SignalChecks ==
    {"Complete HTTPS Security", "Title Coverage & Differentiation",
     "Meta Description Presence", "Structured Data Footprint",
     "Internal Path Consistency", "Image Alt Coverage",
     "Substantial Content Depth", "Clear Heading Spine",
     "Template Consistency", "Breadcrumb Traces"}

TwoSidedChecks ==
    {"Complete HTTPS Security", "Title Coverage & Differentiation",
     "Meta Description Presence", "Structured Data Footprint",
     "Internal Path Consistency", "Clear Heading Spine"}

BandedChecks == {"Image Alt Coverage", "Template Consistency", "Breadcrumb Traces"}

\* the check put a finding into W / into N for the page list of this state
InWorking(check) ==
    LET W == WorkingCandidates(Stats(pagesData), host)
    IN  \E i \in DOMAIN W : W[i].title = check
InNeeds(check) ==
    LET N == NeedsCandidates(Stats(pagesData), host, reportType = "analyze")
    IN  \E i \in DOMAIN N : N[i].title \in NeedsTitlesOf(check)

\* the candidates reach the report when the list is not cut short
CandidatesReported ==
    LET W == WorkingCandidates(Stats(pagesData), host)
        N == NeedsCandidates(Stats(pagesData), host, reportType = "analyze")
    IN  /\ Len(W) <= Len(report.working)
        /\ Len(N) <= Len(report.needsAttention)
        /\ \A i \in DOMAIN W : report.working[i].title = W[i].title
        /\ \A i \in DOMAIN N : report.needsAttention[i].title = N[i].title

C21_ChecksByList ==
    (Returned /\ Len(pagesData) > 0) =>
        /\ \A c \in TwoSidedChecks : InWorking(c) # InNeeds(c)
        /\ \A c \in BandedChecks : ~(InWorking(c) /\ InNeeds(c))

\* every one of the ten checks in exactly one list
C21_ExactlyOneList ==
    (Returned /\ Len(pagesData) > 0) =>
        \A c \in SignalChecks : InWorking(c) # InNeeds(c)

\* the content depth check in both lists, the alt text check in neither
C21_Witness ==
    /\ Returned /\ Len(pagesData) > 0
    /\ InWorking("Substantial Content Depth") /\ InNeeds("Substantial Content Depth")
    /\ ~InWorking("Image Alt Coverage") /\ ~InNeeds("Image Alt Coverage")
    /\ CandidatesReported


-----------------------------------------------------------------------------
(* C22 - in each list returned by generateCompleteAnalysis for a non-empty *)
(* page list, the deduplicated candidates keep their catalogue order: with *)
(* at least as many candidates as the target the list is exactly the first *)
(* target candidates; with fewer, the list starts with all candidates in   *)
(* order and every later entry is a filler.                                *)

FillerTitles ==
    {SeedTitles[j] \o SeedSuffix(i) :
        j \in DOMAIN SeedTitles, i \in 0..(Len(SeedTitles) * SeedCycles - 1)}

\* out is made of the candidates cand, cut or filled up to target
KeepsCatalogueOrder(out, cand, target) ==
    /\ Len(cand) >= target => Len(out) = target
    /\ Len(cand) < target => Len(out) >= Len(cand)
    /\ \A i \in DOMAIN out :
          IF i <= Len(cand) THEN out[i].title = cand[i].title
          ELSE out[i].title \in FillerTitles

RealWorking == uniqueByTitle(WorkingCandidates(Stats(pagesData), host))
RealNeeds ==
    uniqueByTitle(NeedsCandidates(Stats(pagesData), host, reportType = "analyze"))

C22_CandidatesFirstInOrder ==
    (Analysed /\ Len(pagesData) > 0) =>
        LET targets == targetsFor(reportType, calculateQualityScore(pagesData))
        IN  /\ KeepsCatalogueOrder(analysis.working, RealWorking, targets.working)
            /\ KeepsCatalogueOrder(analysis.needsAttention, RealNeeds, targets.needs)

\* one list is cut (more needs candidates than the target), the other is
\* filled up behind its candidates
C22_Witness ==
    /\ Analysed /\ Len(pagesData) > 0
    /\ Len(RealNeeds) > Len(analysis.needsAttention)
    /\ Len(RealWorking) \in 1..(Len(analysis.working) - 1)


-----------------------------------------------------------------------------
(***************************************************************************)
(* enforceNeedsAttention (v1.9.15-ssr).  A text is a sequence of tokens    *)
(* [w, up, e, c, n]: w the lower-case spelling, up whether the token is    *)
(* capitalised, e whether it ends with a full stop, c whether a colon      *)
(* follows it, n a number written after it (0: none).                      *)
(***************************************************************************)
Tok(w) == [w |-> w, up |-> FALSE, e |-> FALSE, c |-> FALSE, n |-> 0]
Cap(t) == [t EXCEPT !.up = TRUE]
Stop(t) == [t EXCEPT !.e = TRUE]
Colon(t) == [t EXCEPT !.c = TRUE]
Num(t, k) == [t EXCEPT !.n = k]

\* words, the first capitalised
Phrase(ws) == [i \in DOMAIN ws |-> IF i = 1 THEN Cap(Tok(ws[i])) ELSE Tok(ws[i])]
\* the last token of a text, changed by f
AtEnd(text, f(_)) == [i \in DOMAIN text |-> IF i = Len(text) THEN f(text[i]) ELSE text[i]]

MaxItems == 11   \* longest run of distinctly titled items in the input list
MaxExtra == 1    \* longest run of special items before and after that run

\* const fallbackPool = [...]
fallbackPool ==
    << Phrase(<<"topic", "focus", "clarity">>),
       Phrase(<<"internal", "connection", "mapping">>),
       Phrase(<<"result", "framing", "signal">>),
       Phrase(<<"visual", "descriptor", "cadence">>),
       Phrase(<<"entity", "signaling", "layer">>),
       Phrase(<<"experience", "smoothness">>),
       Phrase(<<"contextual", "layout", "fit">>),
       Phrase(<<"snippet", "readiness">>),
       Phrase(<<"navigation", "cue", "consistency">>),
       Phrase(<<"cross-surface", "coherence">>),
       Phrase(<<"canonical", "intent", "clarity">>),
       Phrase(<<"template", "parity">>) >>

\* `${label}: signal variance detected across key surfaces.` and the two
\* fixed sentences, joined by blanks
makeText(label) ==
    AtEnd(label, Colon)
    \o AtEnd(Phrase(<<"signal", "variance", "detected", "across", "key", "surfaces">>), Stop)
    \o AtEnd(Phrase(<<"guidance", "is", "directional", "and", "intended", "for", "scoping;", "implementation", "specifics", "will", "be", "provided", "during", "the", "guided", "session">>), Stop)
    \o AtEnd(Phrase(<<"observed", "patterns", "indicate", "prioritization", "rather", "than", "immediate", "execution", "detail">>), Stop)

\* `<li><strong>${title}:</strong> ${makeText(label)}</li>`
makeLI(title, label) == [title |-> title, label |-> label]
\* $(li).text() of such an item
LiText(li) == AtEnd(li.title, Colon) \o makeText(li.label)

\* raw.split(":")[0].trim()
RECURSIVE BeforeColon(_)
BeforeColon(raw) ==
    IF Len(raw) = 0 THEN <<>>
    ELSE IF Head(raw).c THEN <<[Head(raw) EXCEPT !.c = FALSE]>>
    ELSE <<Head(raw)>> \o BeforeColon(Tail(raw))

TitleOf(raw) ==
    LET t == SelectSeq(BeforeColon(raw), LAMBDA x : x.w # "")
    IN  IF Len(t) = 0 THEN Phrase(<<"signal", "coherence">>) ELSE t

\* title.toLowerCase()
KeyOf(title) == [i \in DOMAIN title |-> [title[i] EXCEPT !.up = FALSE]]

\* /.../i.test(raw) for the words of the inputs: the words that contain one
\* of the alternatives of the pattern
Mentions(raw, words) == \E i \in DOMAIN raw : raw[i].w \in words

LabelFor(raw) ==
    IF Mentions(raw, {"h1", "headings"}) THEN fallbackPool[1]
    ELSE IF Mentions(raw, {"links"}) THEN fallbackPool[2]
    ELSE IF Mentions(raw, {"meta"}) THEN fallbackPool[3]
    ELSE IF Mentions(raw, {"alt", "images"}) THEN fallbackPool[4]
    ELSE IF Mentions(raw, {"schema"}) THEN fallbackPool[5]
    ELSE IF Mentions(raw, {"speed"}) THEN fallbackPool[6]
    ELSE IF Mentions(raw, {"mobile"}) THEN fallbackPool[7]
    ELSE IF Mentions(raw, {"faq"}) THEN fallbackPool[8]
    ELSE IF Mentions(raw, {"menu", "media"}) THEN fallbackPool[9]
    ELSE fallbackPool[10]

\* $ul.find("li").each(...): rewrite and dedupe the existing items
RECURSIVE RewriteItems(_, _, _)
RewriteItems(lis, seen, items) ==
    IF Len(lis) = 0 THEN [seen |-> seen, items |-> items]
    ELSE LET raw == Head(lis)
             title == TitleOf(raw)
             key == KeyOf(title)
         IN  IF key \in seen THEN RewriteItems(Tail(lis), seen, items)
             ELSE RewriteItems(Tail(lis), seen \cup {key},
                               Append(items, makeLI(title, LabelFor(raw))))

\* ` (site-wide ${padIdx + 1})`
SiteWide(label, padIdx) == Append(label, Num(Tok("(site-wide)"), padIdx + 1))

\* while (items.length < 10) { ... }
RECURSIVE PadItems(_, _, _)
PadItems(seen, items, padIdx) ==
    IF Len(items) >= 10 THEN items
    ELSE LET label == fallbackPool[(padIdx % Len(fallbackPool)) + 1]
             title == IF KeyOf(label) \in seen THEN SiteWide(label, padIdx) ELSE label
         IN  PadItems(seen \cup {KeyOf(title)},
                      Append(items, makeLI(title, label)), padIdx + 1)

\* the items left in the list under the header; lis are the texts of its
\* <li> items (none when the list had to be created)
enforceNeedsAttention(lis) ==
    LET r == RewriteItems(lis, {}, <<>>)
    IN  Take(PadItems(r.seen, r.items, 0), 10)

\* ---- inputs ----
IssueBodies ==
    << <<Tok("h1"), Stop(Tok("missing"))>>,
       <<Cap(Tok("links")), Stop(Tok("broken"))>>,
       <<Tok("meta"), Tok("text"), Stop(Tok("missing"))>>,
       <<Tok("slow"), Stop(Tok("pages"))>> >>

\* "Issue k: ..."
IssueItem(k) ==
    <<Cap(Tok("issue")), Colon(Num(Tok("no."), k))>>
    \o IssueBodies[(k % Len(IssueBodies)) + 1]

SpecialItems ==
    { \* "issue 1: media missing."  (Issue 1 in another case)
      <<Tok("issue"), Colon(Num(Tok("no."), 1)), Tok("media"), Stop(Tok("missing"))>>,
      \* "Topic focus clarity: h1 missing."  (a label of the fallback pool)
      AtEnd(fallbackPool[1], Colon) \o <<Tok("h1"), Stop(Tok("missing"))>>,
      \* "Topic focus clarity (site-wide 1): add alt text."
      AtEnd(SiteWide(fallbackPool[1], 0), Colon)
          \o <<Cap(Tok("add")), Tok("alt"), Stop(Tok("text"))>>,
      \* "Pages slow. Media missing. Add alt text."  (no colon)
      <<Cap(Tok("pages")), Stop(Tok("slow")), Cap(Tok("media")), Stop(Tok("missing")), Cap(Tok("add")), Tok("alt"), Stop(Tok("text"))>>,
      \* ": schema missing."  (nothing before the colon)
      <<Colon(Tok("")), Tok("schema"), Stop(Tok("missing"))>>,
      \* ""  (an empty item)
      <<>> }

IssueRun(n) == [k \in 1..n |-> IssueItem(k)]

EnforceInputs ==
    {pre \o IssueRun(n) \o post :
        pre \in SeqsUpTo(SpecialItems, MaxExtra),
        n \in 0..MaxItems,
        post \in SeqsUpTo(SpecialItems, MaxExtra)}

EnforceInit ==
    /\ html \in EnforceInputs
    /\ normalized = NoResult
    /\ scoreReply = NoResult /\ submissionsFile = <<>> /\ handlers = <<>>
    /\ pagesData = <<>> /\ host = "" /\ reportType = "analyze"
    /\ NoCalls /\ NoReport /\ NoCrawl

EnforceNeedsAttention ==
    /\ normalized = NoResult
    /\ normalized' = enforceNeedsAttention(html)
    /\ UNCHANGED <<html, scoreReply, submissionsFile, handlers>>
    /\ UNCHANGED analysisVars
    /\ UNCHANGED crawlVars

EnforceNext == EnforceNeedsAttention

EnforceSpec == EnforceInit /\ [][EnforceNext]_vars

-----------------------------------------------------------------------------
\* sentences of a text: a sentence ends at a full stop that is followed by
\* white space or by the end of the text
SentencesIn(text) ==
    Cardinality({i \in DOMAIN text : text[i].e /\ ~text[i].c})
    + (IF Len(text) > 0 /\ ~(text[Len(text)].e /\ ~text[Len(text)].c) THEN 1 ELSE 0)

Enforced == normalized # NoResult

TenItems == Len(normalized) = 10

DistinctTitles ==
    \A i, j \in DOMAIN normalized :
        i # j => KeyOf(TitleOf(LiText(normalized[i]))) # KeyOf(TitleOf(LiText(normalized[j])))

ThreeSentences ==
    \A i \in DOMAIN normalized : SentencesIn(LiText(normalized[i])) = 3

(* C23 - whatever the list under the Needs Attention header holds,         *)
(* enforceNeedsAttention leaves exactly 10 items in it, their titles (the  *)
(* text before the first colon) pairwise different without regard to case, *)
(* and each item of 3 sentences.                                           *)
C23_TenDistinctThreeSentences ==
    Enforced =>
        /\ TenItems
        /\ DistinctTitles
        /\ ThreeSentences


-----------------------------------------------------------------------------
(***************************************************************************)
(* generateCompleteAnalysis of v2.4.0.  Scoring, the candidate conditions, *)
(* uniqueByTitle and the seed loop of grow are those of v2.4.2; targetsFor *)
(* differs in the high band.  polish differs too, so only the titles of    *)
(* the Needs Attention list are modelled.                                  *)
(***************************************************************************)
targetsFor240(rt, score) ==
    IF rt = "analyze" THEN [working |-> 5, needs |-> 10]
    ELSE IF score < 60 THEN [working |-> 5, needs |-> 25]
    ELSE IF score < 80 THEN [working |-> 7, needs |-> 20]
    ELSE [working |-> 10, needs |-> 20]

\* titles of grow(Nuniq, needsTarget, host, modeStr)
needsAttention240(pd, h, rt) ==
    LET score  == calculateQualityScore(pd)
        target == targetsFor240(rt, score).needs
        Nuniq  == uniqueByTitle(NeedsCandidates(Stats(pd), h, rt = "analyze"))
        out    == Take(GrowLoop(Nuniq, target, 0), target)
    IN  [i \in DOMAIN out |-> out[i].title]

GenerateCompleteAnalysis240 ==
    /\ analysis = NoResult
    /\ Len(pagesData) > 0
    /\ analysis' = [needsAttention |-> needsAttention240(pagesData, host, reportType),
                    qualityScore |-> calculateQualityScore(pagesData)]
    /\ UNCHANGED <<pagesData, host, reportType, scoreLog, scoreCalls,
                   analysisCalls, analysisLog, insights, insightsCalls,
                   insightsLog, report, azPc>>
    /\ UNCHANGED crawlVars
    /\ UNCHANGED serverVars

Next240 == GenerateCompleteAnalysis240

Spec240 == Init /\ [][Next240]_vars

(* C24 - in v2.4.0, for every non-empty page list in full-report mode the  *)
(* Needs Attention list has at least 20 items.                             *)
C24_AtLeastTwentyNeeds ==
    (analysis # NoResult /\ Len(pagesData) > 0 /\ reportType # "analyze") =>
        Len(analysis.needsAttention) >= 20


-----------------------------------------------------------------------------
(* C25 - throughout crawlSitePages the queue holds no URL twice and no URL *)
(* that was visited, so the visited test after the dequeue never skips:    *)
(* every URL taken from the queue is handed to axios.get.                  *)
C25_QueueCleanNoSkip ==
    /\ \A i, j \in DOMAIN queue : i # j => queue[i] # queue[j]
    /\ SeqRange(queue) \cap visited = {}
    /\ Len(fetched) + Len(queue) = Len(enqueued)
    /\ visited = SeqRange(fetched)
    /\ crawlPc = "loop" => (current = NoUrl \/ current = fetched[Len(fetched)])

\* the start page linked twice to /about (the second link met it in the
\* queue), and the page / linked to itself (met in visited) and to /a/b/c/d
C25_Witness ==
    /\ crawlPc = "loop" /\ Len(queue) > 0
    /\ \E j \in DOMAIN enqueued :
          /\ j > 1
          /\ enqueued[j].url = ResolveUrl(hAbout, startUrl)
          /\ enqueued[j].from = startUrl
          /\ enqueued[j - 1].url = ResolveUrl(hRoot, startUrl)
    /\ \E i \in DOMAIN enqueued :
          /\ enqueued[i].url = ResolveUrl(hDeep, startUrl)
          /\ enqueued[i].from = ResolveUrl(hRoot, startUrl)
    /\ ResolveUrl(hRoot, startUrl) \in visited


-----------------------------------------------------------------------------
(* C26 - for every non-empty page list calculateQualityScore returns an    *)
(* integer from 40 to 88, which is the rounded sum itself: the clamp to    *)
(* [30, 100] changes nothing.  30 is returned for the empty list only.     *)
C26_FortyToEightyEight ==
    \A s \in scoreLog :
        IF Len(pagesData) = 0 THEN s = FallbackScore
        ELSE /\ s \in 40..88
             /\ s = RoundDiv(ScoreNum(pagesData), Len(pagesData))
             /\ s # FallbackScore

\* a list of several pages reached the top of the band
C26_Witness ==
    /\ Len(pagesData) >= 2
    /\ 88 \in scoreLog


-----------------------------------------------------------------------------
(* C27 - the override touches the score and the pillars only.  For an      *)
(* override host whose crawl returned pages, the working list, the         *)
(* needsAttention list and the insights are those a host outside the       *)
(* override set gets for the same pages and report type (the texts name    *)
(* the host; the model keeps of a host name only whether it starts with a  *)
(* digit), and the lists are as long as the score computed from the pages  *)
(* asks, not as long as 89 asks.                                           *)
PlainHost == "example.com"

C27_OverrideKeepsFindings ==
    (Returned /\ OverrideSite /\ Len(pagesData) > 0) =>
        LET plain == tryAnalyze(pagesData, PlainHost, reportType)
            own   == generateCompleteAnalysis(pagesData, PlainHost, reportType)
        IN  /\ PlainHost \notin OVERRIDE
            /\ report.working = plain.working
            /\ report.needsAttention = plain.needsAttention
            /\ report.insights = plain.insights
            /\ plain.score = calculateQualityScore(pagesData)
            /\ Len(report.working) = Len(own.working)
            /\ Len(report.needsAttention) = Len(own.needsAttention)

\* a full report for an override host whose pages score below 80: more
\* needsAttention entries than the 15 that a score of 89 asks for
C27_Witness ==
    /\ Returned /\ OverrideSite /\ Len(pagesData) > 0
    /\ reportType \in {"full", "full-report"}
    /\ calculateQualityScore(pagesData) < 80
    /\ report.score = 89
    /\ Len(report.needsAttention) > targetsFor(reportType, 89).needs


-----------------------------------------------------------------------------
(* C28 - when the crawl of an override host returns no page, analyzeWebsite *)
(* returns the fallback of the catch block (score 60, every pillar 15, one *)
(* needsAttention finding "Analysis Incomplete"), not the override         *)
(* constants.                                                              *)
C28_OverrideFailsLikeAnyHost ==
    (Returned /\ OverrideSite /\ Len(pagesData) = 0) =>
        /\ report.score = 60
        /\ \A k \in DOMAIN report.pillars : report.pillars[k] = 15
        /\ Len(report.needsAttention) = 1
        /\ report.needsAttention[1] = IncompleteFinding(host)
        /\ ~OverrideReport

\* the crawl of http://quontora.com came back empty
C28_Witness ==
    /\ Returned /\ Len(pagesData) = 0
    /\ host = "quontora.com" /\ host \in OVERRIDE
    /\ report.score = 60


-----------------------------------------------------------------------------
(***************************************************************************)
(* GET /api/score: the url parameter is validated, analyzeWebsite(url,     *)
(* 'analyze') is awaited, and the response is built from its report.  The  *)
(* logo paths of the insights are left out.                                *)
(***************************************************************************)
ScoreUrls ==
    AnalyzeUrls \cup { NoUrl,                                    \* no url parameter
                       Url("mailto", "info@example.com", <<>>) } \* mailto:info@example.com

bandText(score) ==
    IF score >= 85 THEN "Rank: Highly Visible"
    ELSE IF score >= 70 THEN "Rank: Partially Visible"
    ELSE IF score >= 55 THEN "Rank: Needs Work"
    ELSE "Rank: Low Visibility"

\* analysis.needsAttention.slice(0, 4).map(...)
Highlights(needs) ==
    [i \in 1..Min(4, Len(needs)) |->
        LET sents == splitSents(needs[i].description)
        IN  [title |-> needs[i].title,
             first |-> IF Len(sents) > 0 THEN sents[1] ELSE needs[i].description]]

\* a response whose score is the score of the report
ScoreResponse_reportScore(u, h, a) ==
    [status     |-> 200,
     url        |-> u,
     host       |-> h,
     score      |-> a.score,
     pillars    |-> a.pillars,
     highlights |-> Highlights(a.needsAttention),
     band       |-> bandText(a.score),
     override   |-> h \in OVERRIDE,
     insights   |-> [i \in DOMAIN a.insights |->
                        [engine |-> IF i <= Len(EngineOrder) THEN EngineOrder[i] ELSE "Engine",
                         text   |-> a.insights[i].description]]]

\* res.json({ url, host, score: total, pillars, highlights, band, override, insights })
ScoreResponse(u, h, a) ==
    LET total == a.pillars.access + a.pillars.trust + a.pillars.clarity + a.pillars.alignment
    IN  [status     |-> 200,
         url        |-> u,
         host       |-> h,
         score      |-> total,
         pillars    |-> a.pillars,
         highlights |-> Highlights(a.needsAttention),
         band       |-> bandText(total),
         override   |-> h \in OVERRIDE,
         insights   |-> [i \in DOMAIN a.insights |->
                            [engine |-> IF i <= Len(EngineOrder) THEN EngineOrder[i] ELSE "Engine",
                             text   |-> a.insights[i].description]]]

ScoreInit ==
    /\ startUrl \in ScoreUrls
    /\ reportType = "analyze"
    /\ host = "" /\ maxPages = 0
    /\ pagesData = <<>>
    /\ NoCalls /\ NoReport /\ NoServer
    /\ queue = <<>> /\ current = NoUrl /\ visited = {} /\ pages = <<>>
    /\ fetched = <<>> /\ failed = {} /\ enqueued = <<>> /\ crawlPc = "idle"

\* the handler up to `await analyzeWebsite(url, 'analyze')`
ScoreRequest ==
    /\ azPc = "idle" /\ scoreReply = NoResult
    /\ IF startUrl = NoUrl
       THEN /\ scoreReply' = [status |-> 400, error |-> "Missing url parameter"]
            /\ UNCHANGED <<host, maxPages, azPc>>
       ELSE IF startUrl.scheme = ""
       THEN /\ scoreReply' = [status |-> 400, error |-> "Invalid URL format"]
            /\ UNCHANGED <<host, maxPages, azPc>>
       ELSE /\ host' = hostOf(startUrl)
            /\ maxPages' = MaxPagesFor(reportType)
            /\ azPc' = "crawl"
            /\ UNCHANGED scoreReply
    /\ UNCHANGED <<pagesData, reportType, scoreLog, scoreCalls, analysis,
                   analysisCalls, analysisLog, insights, insightsCalls,
                   insightsLog, report>>
    /\ UNCHANGED <<startUrl, queue, current, visited, pages, fetched, failed,
                   enqueued, crawlPc>>
    /\ UNCHANGED <<html, normalized, submissionsFile, handlers>>

\* analyzeWebsite returned: the response is sent
ScoreRespond ==
    /\ azPc = "done" /\ scoreReply = NoResult
    /\ scoreReply' = ScoreResponse(startUrl, host, report)
    /\ UNCHANGED <<html, normalized, submissionsFile, handlers>>
    /\ UNCHANGED analysisVars
    /\ UNCHANGED crawlVars

ScoreNext ==
    ScoreRequest \/ AnalyzeCrawlReturns \/ AnalyzeTry \/ AnalyzeCatch \/ ScoreRespond

ScoreSpec == ScoreInit /\ [][ScoreNext]_vars

-----------------------------------------------------------------------------
CarriesScore == scoreReply # NoResult /\ "score" \in DOMAIN scoreReply

PillarSum(p) == p.access + p.trust + p.clarity + p.alignment

-----------------------------------------------------------------------------
(***************************************************************************)
(* POST /api/full-report-request.  Each request runs the handler, the      *)
(* callback of fs.readFile and the callback of fs.writeFile; between them  *)
(* the event loop runs the steps of other requests.  A submission is       *)
(* identified by its request; the timestamp is left out.  A read or a      *)
(* write of the file is taken as one step.                                 *)
(***************************************************************************)
MaxRequests == 3

Requests == 1..MaxRequests

\* submissions.json: whether it exists, and the array it holds
File(exists, content) == [exists |-> exists, content |-> content]

SubmitInit ==
    /\ submissionsFile \in {File(FALSE, <<>>), File(TRUE, <<>>)}
    /\ handlers \in [Requests -> {[pc |-> "start", complete |-> c, submissions |-> <<>>, reply |-> "none"] : c \in BOOLEAN}]
    /\ html = <<>> /\ normalized = NoResult /\ scoreReply = NoResult
    /\ pagesData = <<>> /\ host = "" /\ reportType = "analyze"
    /\ NoCalls /\ NoReport /\ NoCrawl

\* the handler: 400 for a body without name, email or url; else fs.readFile
SubmitReceive ==
    /\ \E r \in Requests :
          /\ handlers[r].pc = "start"
          /\ handlers' = [handlers EXCEPT ![r] =
                IF handlers[r].complete
                THEN [@ EXCEPT !.pc = "reading"]
                ELSE [@ EXCEPT !.pc = "done", !.reply = "400"]]
    /\ UNCHANGED <<submissionsFile, html, normalized, scoreReply>>
    /\ UNCHANGED analysisVars
    /\ UNCHANGED crawlVars

\* the callback of fs.readFile: the array read (empty on an error), with
\* the submission pushed, is handed to fs.writeFile
SubmitRead ==
    /\ \E r \in Requests :
          /\ handlers[r].pc = "reading"
          /\ LET data == IF submissionsFile.exists THEN submissionsFile.content ELSE <<>>
             IN  handlers' = [handlers EXCEPT ![r] =
                    [@ EXCEPT !.pc = "writing", !.submissions = Append(data, r)]]
    /\ UNCHANGED <<submissionsFile, html, normalized, scoreReply>>
    /\ UNCHANGED analysisVars
    /\ UNCHANGED crawlVars

\* fs.writeFile succeeded; its callback answers { success: true }
SubmitWritten ==
    /\ \E r \in Requests :
          /\ handlers[r].pc = "writing"
          /\ submissionsFile' = File(TRUE, handlers[r].submissions)
          /\ handlers' = [handlers EXCEPT ![r] =
                [@ EXCEPT !.pc = "done", !.reply = "success"]]
    /\ UNCHANGED <<html, normalized, scoreReply>>
    /\ UNCHANGED analysisVars
    /\ UNCHANGED crawlVars

\* fs.writeFile failed; its callback answers 500
SubmitWriteFailed ==
    /\ \E r \in Requests :
          /\ handlers[r].pc = "writing"
          /\ handlers' = [handlers EXCEPT ![r] =
                [@ EXCEPT !.pc = "done", !.reply = "500"]]
    /\ UNCHANGED <<submissionsFile, html, normalized, scoreReply>>
    /\ UNCHANGED analysisVars
    /\ UNCHANGED crawlVars

SubmitNext == SubmitReceive \/ SubmitRead \/ SubmitWritten \/ SubmitWriteFailed

SubmitSpec == SubmitInit /\ [][SubmitNext]_vars

-----------------------------------------------------------------------------
AllAnswered == \A r \in DOMAIN handlers : handlers[r].pc = "done"

(* C30 - whatever the interleaving of concurrent requests, once all are    *)
(* answered the file holds the submission of every request that was        *)
(* answered success: true.                                                 *)
C30_NoLostSubmission ==
    AllAnswered =>
        \A r \in DOMAIN handlers :
            handlers[r].reply = "success" =>
                /\ submissionsFile.exists
                /\ \E i \in DOMAIN submissionsFile.content :
                      submissionsFile.content[i] = r

=============================================================================
